---- MODULE Spec2Model ----
(***************************************************************************)
(* A model of the AI Content Optimizer pipeline: the Streamlit entry       *)
(* point (app.py), the shared agent lifecycle (agent_base.py), the five    *)
(* stage agents and the OpenRouter client (llm_handler.py).                *)
(*                                                                         *)
(* Texts are TLA+ strings, read character by character with SubSeq, so     *)
(* the string operations of the source (split, strip, startswith, the      *)
(* regular expressions) are computed rather than assumed.  Characters      *)
(* outside ASCII in the source's literals are written in ASCII here:       *)
(* the middle dot as ".", the arrow as "->", the en dash as "-" (each is   *)
(* one character in Python except the arrow, which occurs only in          *)
(* feedback wording).                                                      *)
(***************************************************************************)
EXTENDS Integers, Sequences, FiniteSets, TLC

VARIABLES
    pc,        \* position of the handler / harness
    uploaded,  \* st.file_uploader: NoFile or the decoded file content
    pasted,    \* st.text_area content
    env,       \* [api_key: BOOLEAN]  OPENROUTER_API_KEY in env or secrets
    config,    \* AppConfig: [profile, mode, selected_model]
    llm,       \* the agents' llm client: "none" or "client"
    primary_keyword, \* st.text_input "Primary Keyword"
    doc,       \* current DocumentPayload (NoDoc before build_document)
    results,   \* run_pipeline's results list
    exc,       \* the exception that left the handler, or "" when none
    http,      \* number of requests.post calls dispatched so far
    args,      \* arguments of the function under test (unit specifications)
    ret        \* its return value

vars == <<pc, uploaded, pasted, env, config, llm, primary_keyword, doc, results, exc, http, args, ret>>

-----------------------------------------------------------------------------
(* Strings *)
(* The operations scan index sets rather than recurse on the text, so the  *)
(* evaluation depth does not grow with the length of a text.               *)

Ch(s, i) == SubSeq(s, i, i)

Max(a, b) == IF a >= b THEN a ELSE b
Min(a, b) == IF a <= b THEN a ELSE b
\* the largest and the smallest element of a non-empty set of integers
MaxOf(S) == CHOOSE m \in S : \A n \in S : n <= m
MinOf(S) == CHOOSE m \in S : \A n \in S : m <= n
\* the elements of a finite set of integers in increasing order
Sorted(S) ==
    [k \in 1..Cardinality(S) |->
        CHOOSE x \in S : Cardinality({y \in S : y < x}) = k - 1]

LowerAlpha == "abcdefghijklmnopqrstuvwxyz"
UpperAlpha == "ABCDEFGHIJKLMNOPQRSTUVWXYZ"
Digits == "0123456789"

\* position of character c in s at or after i, 0 when absent
IndexIn(s, c, i) ==
    LET hits == {j \in i..Len(s) : Ch(s, j) = c}
    IN IF hits = {} THEN 0 ELSE MinOf(hits)

IsLower(c) == IndexIn(LowerAlpha, c, 1) > 0
IsUpper(c) == IndexIn(UpperAlpha, c, 1) > 0
IsDigit(c) == IndexIn(Digits, c, 1) > 0
IsLetter(c) == IsLower(c) \/ IsUpper(c)
\* \w of the re module, on the ASCII range
IsWordChar(c) == IsLower(c) \/ IsUpper(c) \/ IsDigit(c) \/ c = "_"
\* the characters str.strip(), str.split() and \s treat as whitespace
IsSpace(c) == c \in {" ", "\t", "\n", "\r", "\f"}

ToLowerCh(c) ==
    LET k == IndexIn(UpperAlpha, c, 1) IN IF k > 0 THEN Ch(LowerAlpha, k) ELSE c
ToUpperCh(c) ==
    LET k == IndexIn(LowerAlpha, c, 1) IN IF k > 0 THEN Ch(UpperAlpha, k) ELSE c

RECURSIVE LowerRange(_, _, _)
\* str.lower() of s[a..b], halving the range
LowerRange(s, a, b) ==
    IF a > b THEN ""
    ELSE IF a = b THEN ToLowerCh(Ch(s, a))
    ELSE LET m == (a + b) \div 2
         IN LowerRange(s, a, m) \o LowerRange(s, m + 1, b)
\* str.lower()
Lower(s) == LowerRange(s, 1, Len(s))

RECURSIVE TitleRange(_, _, _)
\* str.title() of s[a..b]: a letter that follows a letter is lowered, any
\* other letter is raised
TitleRange(s, a, b) ==
    IF a > b THEN ""
    ELSE IF a = b
    THEN (IF a > 1 /\ IsLetter(Ch(s, a - 1)) THEN ToLowerCh(Ch(s, a))
          ELSE ToUpperCh(Ch(s, a)))
    ELSE LET m == (a + b) \div 2
         IN TitleRange(s, a, m) \o TitleRange(s, m + 1, b)
\* str.title()
TitleCase(s) == TitleRange(s, 1, Len(s))

\* s[:n]
Take(s, n) == SubSeq(s, 1, IF n < Len(s) THEN n ELSE Len(s))

\* s.startswith(p) at offset i (1-based)
MatchAt(s, p, i) == i + Len(p) - 1 <= Len(s) /\ SubSeq(s, i, i + Len(p) - 1) = p
StartsWith(s, p) == MatchAt(s, p, 1)
EndsWith(s, p) == Len(p) <= Len(s) /\ MatchAt(s, p, Len(s) - Len(p) + 1)
\* p in s
Contains(s, p) == \E i \in 1..(Len(s) + 1) : MatchAt(s, p, i)

\* the first offset >= i of s that holds no whitespace, Len(s) + 1 when none
FirstNonSpace(s, i) ==
    LET hits == {j \in i..Len(s) : ~IsSpace(Ch(s, j))}
    IN IF hits = {} THEN Max(i, Len(s) + 1) ELSE MinOf(hits)
\* the last offset <= i of s that holds no whitespace, 0 when none
LastNonSpace(s, i) ==
    LET hits == {j \in 1..i : ~IsSpace(Ch(s, j))}
    IN IF hits = {} THEN 0 ELSE MaxOf(hits)
\* str.strip()
Strip(s) == SubSeq(s, FirstNonSpace(s, 1), LastNonSpace(s, Len(s)))

\* str.rstrip(c) for a one-character c
RStripCh(s, c) ==
    LET keep == {j \in 1..Len(s) : Ch(s, j) # c}
    IN IF keep = {} THEN "" ELSE SubSeq(s, 1, MaxOf(keep))

\* the last offset of the run that starts at i and whose characters satisfy In
RunEnd(s, i, In(_)) ==
    LET stops == {j \in (i + 1)..Len(s) : ~In(Ch(s, j))}
    IN IF stops = {} THEN Len(s) ELSE MinOf(stops) - 1

NotSpace(c) == ~IsSpace(c)

\* the offsets where a maximal run of non-whitespace starts
WordStarts(s) ==
    {i \in 1..Len(s) : ~IsSpace(Ch(s, i)) /\ (i = 1 \/ IsSpace(Ch(s, i - 1)))}
\* str.split(): the maximal runs of non-whitespace, in order
Split(s) ==
    LET starts == Sorted(WordStarts(s))
    IN [k \in 1..Len(starts) |-> SubSeq(s, starts[k], RunEnd(s, starts[k], NotSpace))]
\* len(str.split())
WordCount(s) == Len(Split(s))

\* the pieces of s between the cut points: cut k removes s[from[k]..to[k]]
Pieces(s, from, to) ==
    [k \in 1..(Len(from) + 1) |->
        SubSeq(s, IF k = 1 THEN 1 ELSE to[k - 1] + 1,
                  IF k > Len(from) THEN Len(s) ELSE from[k] - 1)]

\* str.split(c) for a one-character separator: empty pieces are kept
SplitOn(s, c) ==
    LET seps == Sorted({i \in 1..Len(s) : Ch(s, i) = c}) IN Pieces(s, seps, seps)

\* str.splitlines(): breaks at \n, \r, \r\n and \f; no trailing empty line
SplitLines(s) ==
    LET IsBreak(i) == Ch(s, i) \in {"\n", "\r", "\f"}
        \* the \n of a \r\n pair belongs to the break its \r starts
        from == Sorted({i \in 1..Len(s) :
                          IsBreak(i) /\ ~(Ch(s, i) = "\n" /\ i > 1 /\ Ch(s, i - 1) = "\r")})
        to == [k \in 1..Len(from) |->
                 IF Ch(s, from[k]) = "\r" /\ from[k] < Len(s) /\ Ch(s, from[k] + 1) = "\n"
                 THEN from[k] + 1 ELSE from[k]]
        pieces == Pieces(s, from, to)
    IN IF s = "" THEN << >>
       ELSE IF pieces[Len(pieces)] = "" THEN SubSeq(pieces, 1, Len(pieces) - 1)
       ELSE pieces

RECURSIVE DigitsOf(_)
DigitsOf(n) == IF n < 10 THEN Ch(Digits, n + 1)
               ELSE DigitsOf(n \div 10) \o Ch(Digits, (n % 10) + 1)
\* str(n) for a non-negative int
IntToStr(n) == DigitsOf(n)

-----------------------------------------------------------------------------
(* agent_base.py: the canonical data models *)

Severities == {"Critical", "High", "Medium", "Low"}
GateDecisions == {"passed", "failed", "skipped"}
ContentBlockTypes == {"H1", "H2", "H3", "paragraph", "list", "faq", "metadata"}
ContentProfiles ==
    {"BLOG", "PRODUCT_PAGE", "SERVICE_PAGE", "THOUGHT_LEADERSHIP", "KNOWLEDGE_BASE"}
OptimizationModes == {"STRICT", "LITE"}

\* a Dict[str, ...]: a function whose domain is the set of keys present
EmptyDict == [k \in {} |-> ""]
\* dict.get(k, d)
Get(m, k, d) == IF k \in DOMAIN m THEN m[k] ELSE d

ContentBlock(id, type, text, metadata) ==
    [block_id |-> id, type |-> type, text |-> text, metadata |-> metadata]

DocumentPayload(raw_text, blocks, profile, metadata) ==
    [raw_text |-> raw_text, blocks |-> blocks, profile |-> profile,
     metadata |-> metadata]

OptimizationFeedback(element, issue, mandate, optimized, severity, impact) ==
    [element_identified |-> element, current_issue |-> issue,
     improvement_mandate |-> mandate, optimized_version |-> optimized,
     severity |-> severity, impact_score |-> impact]

AgentPassResult(feedback, optimized_blocks, score_delta) ==
    [feedback |-> feedback, optimized_blocks |-> optimized_blocks,
     score_delta |-> score_delta]

AgentContext(document, cfg) == [document |-> document, config |-> cfg]

-----------------------------------------------------------------------------
(* config.py *)

OPENROUTER_MODELS ==
    {"openai/gpt-5.1", "openai/gpt-4.1-mini", "anthropic/claude-sonnet-4.5",
     "google/gemini-3-pro-preview", "google/gemini-2.5-flash-preview-09-2025",
     "x-ai/grok-4.1-fast", "qwen/qwen-turbo", "meta-llama/llama-4-maverick",
     "qwen/qwen3-vl-8b-thinking"}

\* OpenRouterSettings.available_models
AvailableModels == OPENROUTER_MODELS

DefaultRuleSet ==
    [require_h2_questions |-> TRUE, require_answer_first_intro |-> TRUE,
     chunk_length_min |-> 75, chunk_length_max |-> 250, require_faq |-> TRUE,
     evidence_density_check |-> TRUE, svo_pattern_preference |-> "High"]

\* RuleSet.get_for_profile
GetForProfile(profile) ==
    IF profile = "THOUGHT_LEADERSHIP"
    THEN [DefaultRuleSet EXCEPT !.require_h2_questions = FALSE,
                                !.chunk_length_max = 300]
    ELSE IF profile = "PRODUCT_PAGE"
    THEN [DefaultRuleSet EXCEPT !.require_answer_first_intro = FALSE,
                                !.chunk_length_min = 50,
                                !.require_faq = TRUE]
    ELSE IF profile = "KNOWLEDGE_BASE"
    THEN [DefaultRuleSet EXCEPT !.require_h2_questions = FALSE,
                                !.svo_pattern_preference = "Medium"]
    ELSE DefaultRuleSet

AppConfig(profile, mode, selected_model) ==
    [profile |-> profile, mode |-> mode, selected_model |-> selected_model]

\* AppConfig.rules
Rules(cfg) == GetForProfile(cfg.profile)

\* AppConfig.validate_model: TRUE when the id is returned, FALSE when it raises
ValidateModel(cfg, model_id) == model_id \in AvailableModels

-----------------------------------------------------------------------------
(* agent_base.py: OptimizationAgent *)

\* _merge_blocks with the first proposal for an id winning
MergeBlocks_firstWins(original, structural, copy) ==
    LET props == structural \o copy IN
    [i \in 1..Len(original) |->
        LET hits == {j \in 1..Len(props) : props[j].block_id = original[i].block_id}
        IN IF hits = {} THEN original[i]
           ELSE props[CHOOSE j \in hits : \A k \in hits : j <= k]]

\* _merge_blocks that also appends the proposals it could not place
MergeBlocks_appendUnknown(original, structural, copy) ==
    LET props == structural \o copy
        ids == {original[i].block_id : i \in 1..Len(original)}
        placed == [i \in 1..Len(original) |->
            LET hits == {j \in 1..Len(props) : props[j].block_id = original[i].block_id}
            IN IF hits = {} THEN original[i] ELSE props[MaxOf(hits)]]
        IsUnknown(b) == b.block_id \notin ids
    IN placed \o SelectSeq(props, IsUnknown)

\* _merge_blocks that walks the replacements instead of the original blocks
MergeBlocks_onlyReplaced(original, structural, copy) ==
    LET props == structural \o copy
        IsReplaced(b) == \E j \in 1..Len(props) : props[j].block_id = b.block_id
        kept == SelectSeq(original, IsReplaced)
    IN [i \in 1..Len(kept) |->
          props[MaxOf({j \in 1..Len(props) : props[j].block_id = kept[i].block_id})]]

\* _merge_blocks that normalises the text of every block it passes through
MergeBlocks_stripText(original, structural, copy) ==
    LET props == structural \o copy IN
    [i \in 1..Len(original) |->
        LET hits == {j \in 1..Len(props) : props[j].block_id = original[i].block_id}
            b == IF hits = {} THEN original[i] ELSE props[MaxOf(hits)]
        IN [b EXCEPT !.text = Strip(b.text)]]

\* OptimizationAgent._merge_blocks: replacements maps each proposed id to the
\* last block of structural + copy carrying it; every original block is
\* replaced by replacements.get(block.block_id, block)
MergeBlocks(original, structural, copy) ==
    LET props == structural \o copy IN
    [i \in 1..Len(original) |->
        LET hits == {j \in 1..Len(props) : props[j].block_id = original[i].block_id}
        IN IF hits = {} THEN original[i] ELSE props[MaxOf(hits)]]

AnyCritical(feedback) ==
    \E i \in 1..Len(feedback) : feedback[i].severity = "Critical"

\* decide_gate with the severity test ahead of the score test
DecideGate_criticalFirst(score_value, feedback, mode) ==
    IF AnyCritical(feedback) THEN "failed"
    ELSE IF score_value >= 80 THEN "passed"
    ELSE IF mode = "LITE" THEN "skipped"
    ELSE "failed"

\* decide_gate that ignores the mode
DecideGate_noMode(score_value, feedback, mode) ==
    IF score_value >= 80 THEN "passed" ELSE "failed"

\* decide_gate that passes a score equal to the threshold only
DecideGate_exactThreshold(score_value, feedback, mode) ==
    IF score_value = 80 THEN "passed"
    ELSE IF AnyCritical(feedback) THEN "failed"
    ELSE IF mode = "LITE" THEN "skipped"
    ELSE "failed"

\* OptimizationAgent.decide_gate
DecideGate(score_value, feedback, mode) ==
    IF score_value >= 80 THEN "passed"
    ELSE IF AnyCritical(feedback) THEN "failed"
    ELSE IF mode = "LITE" THEN "skipped"
    ELSE "failed"

\* OptimizationAgent.score_note
ScoreNote(payload, cfg) == [profile |-> payload.profile, mode |-> cfg.mode]

CountSeverity(feedback, sev) ==
    Cardinality({i \in 1..Len(feedback) : feedback[i].severity = sev})

\* OptimizationAgent.summarize: the decision and the four tallies of the text
Summarize(feedback, decision) ==
    [decision |-> decision,
     Critical |-> CountSeverity(feedback, "Critical"),
     High |-> CountSeverity(feedback, "High"),
     Medium |-> CountSeverity(feedback, "Medium"),
     Low |-> CountSeverity(feedback, "Low")]


-----------------------------------------------------------------------------
(* utils/llm_handler.py: OpenRouterClient *)

\* What the remote service does with one dispatched request: it answers with
\* a completion, or the call ends in a transport timeout or an HTTP error.
TransportFailures == {"Timeout", "HTTPError"}
Outcome(kind, content) == [kind |-> kind, content |-> content]

\* OpenRouterClient._resolve_api_key: TRUE when a key is found, FALSE when
\* it raises RuntimeError
ResolveApiKey(e) == e.api_key

\* OpenRouterClient.send, skipping the allow-list validation
Send_noValidation(cfg, model, outcome) ==
    IF outcome.kind = "ok"
    THEN [raised |-> "", content |-> outcome.content, posts |-> 1]
    ELSE [raised |-> outcome.kind, content |-> "", posts |-> 1]

\* OpenRouterClient.send: validate_model raises ValueError before anything is
\* posted; requests.post raises on a transport failure and raise_for_status
\* on an HTTP error status; otherwise the first choice's content is returned
Send(cfg, model, outcome) ==
    IF ~ValidateModel(cfg, model)
    THEN [raised |-> "ValueError", content |-> "", posts |-> 0]
    ELSE IF outcome.kind = "ok"
    THEN [raised |-> "", content |-> outcome.content, posts |-> 1]
    ELSE [raised |-> outcome.kind, content |-> "", posts |-> 1]

\* OpenRouterClient.chat: model=None, so the configured model is requested
Chat(cfg, outcome) == Send(cfg, cfg.selected_model, outcome)

\* a rewrite helper's return: the text, or the exception that left it
Rewritten(raised, text, posts) == [raised |-> raised, text |-> text, posts |-> posts]

\* the shape shared by every copy pass: what it returns, or what it raised
CopyResult(raised, feedback, optimized_blocks, score_delta, posts) ==
    [raised |-> raised, feedback |-> feedback,
     optimized_blocks |-> optimized_blocks, score_delta |-> score_delta,
     posts |-> posts]

IsParagraph(b) == b.type = "paragraph"
Paragraphs(blocks) == SelectSeq(blocks, IsParagraph)

-----------------------------------------------------------------------------
(* modules/content_strategist.py *)

StrategistIssue(element, issue, mandate, optimized, severity) ==
    OptimizationFeedback(element, issue, mandate, optimized, severity,
                         IF severity \in {"Critical", "High"} THEN 90 ELSE 60)

\* _first_paragraph: <<block>> or << >> for None
FirstParagraph(blocks) ==
    LET ps == Paragraphs(blocks) IN IF ps = << >> THEN << >> ELSE <<ps[1]>>

\* re.search(r"(we'll|this guide|you'll)", text, flags=re.IGNORECASE)
HasPreview(text) ==
    LET t == Lower(text) IN
    Contains(t, "we'll") \/ Contains(t, "this guide") \/ Contains(t, "you'll")

\* _is_answer_first_intro
IsAnswerFirstIntro(text) ==
    LET word_count == WordCount(text) IN
    30 <= word_count /\ word_count <= 60 /\ HasPreview(text)

InterrogativePrefixes == {"how", "what", "why", "when", "where", "who", "should"}

\* _questionize without the "How does" prefix
Questionize_noPrefix(text) == RStripCh(Strip(text), "?") \o "?"

\* _questionize
Questionize(text) ==
    LET cleaned == RStripCh(Strip(text), "?")
        low == Lower(cleaned)
        matches == \E w \in InterrogativePrefixes : StartsWith(low, w)
        c2 == IF ~matches THEN Strip("How does " \o cleaned) ELSE cleaned
    IN c2 \o "?"

\* _rewrite_intro
RewriteIntro(text, context) ==
    LET keyword == Get(context.document.metadata, "primary_keyword", "your topic")
    IN "The fastest way to understand " \o keyword
       \o " is to answer the core question up front, then preview the H2 questions this guide covers."

\* _suggest_core_question
SuggestCoreQuestion(h1_blocks) ==
    LET base == IF h1_blocks # << >> THEN h1_blocks[1].text ELSE "the main topic"
    IN "What is " \o RStripCh(base, "?") \o "?"

IsH1(b) == b.type = "H1"
IsH2(b) == b.type = "H2"
IsFaq(b) == b.type = "faq"

StrategistH2Issue(block) ==
    StrategistIssue("H2 . " \o Take(block.text, 50),
        "H2 headings must be phrased as natural questions aligned to intent.",
        "Rewrite H2s into intent-based questions so AI crawlers can map them to clear needs.",
        Questionize(block.text), "Medium")

\* the rewritten H2 built with the kind of the intro block above it
QuestionBlock_paragraph(block) ==
    ContentBlock(block.block_id, "paragraph", Questionize(block.text), block.metadata)

\* the block ContentStrategistAgent.structural_pass proposes for an H2 that is
\* not a question
QuestionBlock(block) ==
    ContentBlock(block.block_id, block.type, Questionize(block.text), block.metadata)

\* ContentStrategistAgent.structural_pass
StrategistStructuralPass(context) ==
    LET rules == Rules(context.config)
        blocks == context.document.blocks
        h1_blocks == SelectSeq(blocks, IsH1)
        h2_blocks == SelectSeq(blocks, IsH2)
        fbH1 == IF Len(h1_blocks) # 1
                THEN <<StrategistIssue("H1",
                         "Document should contain exactly one H1 heading.",
                         "Create a single H1 that states the primary question this page answers for AI Overviews.",
                         SuggestCoreQuestion(SubSeq(h1_blocks, 1, Min(1, Len(h1_blocks)))),
                         "High")>>
                ELSE << >>
        intro == FirstParagraph(blocks)
        fixIntro == rules.require_answer_first_intro /\ intro # << >>
                    /\ ~IsAnswerFirstIntro(intro[1].text)
        blkIntro == IF fixIntro
                    THEN <<ContentBlock(intro[1].block_id, intro[1].type,
                                        RewriteIntro(intro[1].text, context),
                                        intro[1].metadata)>>
                    ELSE << >>
        fbIntro == IF fixIntro
                   THEN <<StrategistIssue("Introduction",
                            "Opening paragraph is not an answer-first 30-50 word summary.",
                            "Lead with the direct answer and preview the H2 questions you will cover.",
                            blkIntro[1].text, "High")>>
                   ELSE << >>
        NotQuestion(b) == ~EndsWith(Strip(b.text), "?")
        badH2 == IF rules.require_h2_questions
                 THEN SelectSeq(h2_blocks, NotQuestion) ELSE << >>
        blkH2 == [i \in 1..Len(badH2) |-> QuestionBlock(badH2[i])]
        fbH2 == [i \in 1..Len(badH2) |-> StrategistH2Issue(badH2[i])]
        fbFaq == IF rules.require_faq /\ Len(SelectSeq(blocks, IsFaq)) < 3
                 THEN <<StrategistIssue("FAQ section",
                          "Needs at least three long-tail follow-up questions beyond the H2 coverage.",
                          "Add 3-5 FAQ entries covering adjacent intents so AI overviews can reference them.",
                          "Add FAQ entries referencing the H2 coverage and new long-tail intents.",
                          "Medium")>>
                 ELSE << >>
        feedback == fbH1 \o fbIntro \o fbH2 \o fbFaq
    IN AgentPassResult(feedback, blkIntro \o blkH2,
                       Max(0, 100 - 20 * Len(feedback)))

\* _llm_answer_first_intro
LlmAnswerFirstIntro(llmv, cfg, text, outcome) ==
    IF llmv = "none" THEN Rewritten("", text, 0)
    ELSE LET r == Chat(cfg, outcome) IN Rewritten(r.raised, Strip(r.content), r.posts)

\* the copy-pass test without already_adjusted
StrategistCalls_ignoresStructural(context, structural_result, llmv) ==
    IF FirstParagraph(context.document.blocks) # << >> /\ llmv # "none"
    THEN 1 ELSE 0

\* whether the Strategist copy pass reaches its rewriter call
StrategistCalls(context, structural_result, llmv) ==
    LET intro == FirstParagraph(context.document.blocks)
        sb == structural_result.optimized_blocks
        already_adjusted ==
            intro # << >> /\ \E i \in 1..Len(sb) : sb[i].block_id = intro[1].block_id
    IN IF ~already_adjusted /\ intro # << >> /\ llmv # "none" THEN 1 ELSE 0

\* ContentStrategistAgent.copy_pass; oc[1] is the outcome of its one call
StrategistCopyPass(context, structural_result, llmv, oc) ==
    IF StrategistCalls(context, structural_result, llmv) = 0
    THEN CopyResult("", << >>, << >>, 10, 0)
    ELSE LET intro_block == FirstParagraph(context.document.blocks)[1]
             r == LlmAnswerFirstIntro(llmv, context.config, intro_block.text, oc[1])
         IN IF r.raised # "" THEN CopyResult(r.raised, << >>, << >>, 0, r.posts)
            ELSE CopyResult("",
                   <<StrategistIssue("Introduction",
                       "LLM rewrite enforced the answer-first specification required for AI crawlers.",
                       "Adopt the Strategist rewrite so Stage 2 can chunk around a clean answer-first intro.",
                       r.text, "Medium")>>,
                   <<ContentBlock(intro_block.block_id, intro_block.type, r.text,
                                  intro_block.metadata)>>,
                   0, r.posts)


-----------------------------------------------------------------------------
(* modules/chunk_optimizer.py *)

MIN_CHUNK == 75
MAX_CHUNK == 250
\* the cap as a loop that tests it after the rewrite would apply it
MAX_CHUNKS_TO_PROCESS_offByOne == 5 + 1
MAX_CHUNKS_TO_PROCESS == 5

ChunkIssue(element, issue, mandate, optimized, severity) ==
    OptimizationFeedback(element, issue, mandate, optimized, severity,
                         IF severity \in {"Critical", "High"} THEN 85 ELSE 60)

RECURSIVE CollectChunksFrom(_, _, _)
\* _collect_chunks from block i on; current_h2 is "" for None (an H2 whose
\* text is empty is as falsy as None in the test that reads it)
CollectChunksFrom(blocks, i, current_h2) ==
    IF i > Len(blocks) THEN << >>
    ELSE LET block == blocks[i]
             h2 == IF block.type = "H2" THEN block.text ELSE current_h2
             metadata == IF h2 # "" THEN ("h2_label" :> h2) @@ block.metadata
                         ELSE block.metadata
         IN (IF block.type = "paragraph"
             THEN <<ContentBlock(block.block_id, block.type, block.text, metadata)>>
             ELSE << >>) \o CollectChunksFrom(blocks, i + 1, h2)
\* _collect_chunks
CollectChunks(blocks) == CollectChunksFrom(blocks, 1, "")

NonBlank(s) == Strip(s) # ""

\* _passes_aec
PassesAec(text) == Len(SelectSeq(SplitOn(text, "."), NonBlank)) >= 3

ChunkElement(chunk) == "Chunk " \o Get(chunk.metadata, "h2_label", "N/A")

\* the feedback of ChunkOptimizerAgent.structural_pass for one chunk
ChunkLengthIssue(chunk) ==
    LET word_count == WordCount(chunk.text) IN
    IF word_count < MIN_CHUNK
    THEN <<ChunkIssue(ChunkElement(chunk),
             "Chunk under 75 words cannot stand alone.",
             "Expand evidence/context so the chunk reaches 75+ words.",
             chunk.text, "Medium")>>
    ELSE IF word_count > MAX_CHUNK
    THEN <<ChunkIssue(ChunkElement(chunk),
             "Chunk exceeds 250 words and mixes concepts.",
             "Split into multiple semantic chunks with clear focus.",
             Take(chunk.text, 200) \o "...", "Medium")>>
    ELSE << >>

RECURSIVE ChunkLengthIssues(_, _)
ChunkLengthIssues(chunks, i) ==
    IF i > Len(chunks) THEN << >>
    ELSE ChunkLengthIssue(chunks[i]) \o ChunkLengthIssues(chunks, i + 1)

\* ChunkOptimizerAgent.structural_pass
ChunkStructuralPass(context) ==
    LET feedback == ChunkLengthIssues(CollectChunks(context.document.blocks), 1)
    IN AgentPassResult(feedback, << >>, Max(0, 100 - 15 * Len(feedback)))

\* _rewrite_chunk
RewriteChunk(llmv, cfg, text, outcome) ==
    IF llmv = "none" THEN Rewritten("", text, 0)
    ELSE LET r == Chat(cfg, outcome) IN Rewritten(r.raised, Strip(r.content), r.posts)

FailsAec(chunk) == ~PassesAec(chunk.text)

\* the number of rewriter calls the Chunk Optimizer copy pass reaches
ChunkCalls(context, llmv) ==
    IF llmv = "none" THEN 0
    ELSE Min(MAX_CHUNKS_TO_PROCESS,
             Len(SelectSeq(CollectChunks(context.document.blocks), FailsAec)))

RECURSIVE ChunkCopyLoop(_, _, _, _, _, _)
\* the loop of ChunkOptimizerAgent.copy_pass from chunk i on, processed_count
\* rewrites done; acc carries feedback, optimized_blocks and posts so far
ChunkCopyLoop(chunks, i, processed_count, llmv, ctx, acc) ==
    IF i > Len(chunks) THEN acc
    ELSE LET chunk == chunks[i] IN
         IF PassesAec(chunk.text) \/ processed_count >= MAX_CHUNKS_TO_PROCESS
         THEN ChunkCopyLoop(chunks, i + 1, processed_count, llmv, ctx, acc)
         ELSE LET r == RewriteChunk(llmv, ctx.config, chunk.text,
                                    IF llmv = "none" THEN Outcome("ok", "")
                                    ELSE ctx.oc[processed_count + 1])
              IN IF r.raised # ""
                 THEN [acc EXCEPT !.raised = r.raised, !.posts = @ + r.posts]
                 ELSE ChunkCopyLoop(chunks, i + 1, processed_count + 1, llmv, ctx,
                        [acc EXCEPT
                           !.optimized_blocks = Append(@,
                               ContentBlock(chunk.block_id, chunk.type, r.text,
                                            chunk.metadata)),
                           !.feedback = Append(@,
                               ChunkIssue(ChunkElement(chunk),
                                 "Chunk does not follow Answer->Evidence->Context style.",
                                 "Rewrite chunk so first sentence answers, middle cites data, last sentence explains relevance.",
                                 r.text, "High")),
                           !.posts = @ + r.posts])

\* ChunkOptimizerAgent.copy_pass; oc[k] is the outcome of its k-th call
ChunkCopyPass(context, structural_result, llmv, oc) ==
    LET acc == ChunkCopyLoop(CollectChunks(context.document.blocks), 1, 0, llmv,
                             [config |-> context.config, oc |-> oc],
                             CopyResult("", << >>, << >>, 0, 0))
    IN [acc EXCEPT !.score_delta = Max(0, 80 - 10 * Len(acc.feedback))]

-----------------------------------------------------------------------------
(* modules/nlp_stylist.py *)

MAX_SENTENCE_LEN == 30

StylistIssue(element, issue, mandate, optimized, severity) ==
    OptimizationFeedback(element, issue, mandate, optimized, severity,
                         IF severity = "High" THEN 85 ELSE 60)

IsTerminal(c) == c \in {".", "!", "?"}

\* re.split(r"(?<=[.!?])\s+", text): a cut starts at whitespace that follows
\* a sentence terminal and runs to the end of that whitespace
ReSplit(text) ==
    LET from == Sorted({j \in 2..Len(text) :
                          IsSpace(Ch(text, j)) /\ IsTerminal(Ch(text, j - 1))})
        to == [k \in 1..Len(from) |-> RunEnd(text, from[k], IsSpace)]
    IN Pieces(text, from, to)

StripEach(seq) == [i \in 1..Len(seq) |-> Strip(seq[i])]

\* _sentences
Sentences(text) == StripEach(SelectSeq(ReSplit(text), NonBlank))

BeVerbs == {"be", "been", "being", "is", "was", "were"}

WordBoundaryBefore(s, i) == i = 1 \/ ~IsWordChar(Ch(s, i - 1))
WordBoundaryAfter(s, i) == i >= Len(s) \/ ~IsWordChar(Ch(s, i + 1))

\* \b(be|been|being|is|was|were)\b\s+\w+ed\b matched at offset i of s
PassiveAt(s, i) ==
    /\ WordBoundaryBefore(s, i)
    /\ \E v \in BeVerbs :
         /\ MatchAt(s, v, i)
         /\ WordBoundaryAfter(s, i + Len(v) - 1)
         /\ LET k == i + Len(v)
                m == FirstNonSpace(s, k)
            IN /\ k <= Len(s) /\ IsSpace(Ch(s, k))
               /\ m <= Len(s) /\ IsWordChar(Ch(s, m))
               /\ LET e == RunEnd(s, m, IsWordChar)
                  IN e - m + 1 >= 3 /\ SubSeq(s, e - 1, e) = "ed"

\* _looks_passive
LooksPassive(sentence) ==
    LET s == Lower(sentence) IN \E i \in 1..Len(s) : PassiveAt(s, i)

\* len(re.findall(r"[A-Z][a-z]+", text)): a match starts at every capital
\* that a lower-case letter follows, and ends before the next capital
CountEntities(text) ==
    Cardinality({i \in 1..(Len(text) - 1) :
                   IsUpper(Ch(text, i)) /\ IsLower(Ch(text, i + 1))})

\* _needs_density_upgrade
NeedsDensityUpgrade(text) ==
    LET sentences == Sentences(text) IN
    IF sentences = << >> THEN FALSE
    ELSE Len(sentences) < 3 \/ CountEntities(text) < 2

IsLongSentence(sentence) == WordCount(sentence) > MAX_SENTENCE_LEN

\* the feedback of NLPStylistAgent.structural_pass for one paragraph
StylistParagraphIssues(block) ==
    LET sentences == Sentences(block.text)
        long_sentences == SelectSeq(sentences, IsLongSentence)
        passive_sentences == SelectSeq(sentences, LooksPassive)
    IN (IF long_sentences # << >>
        THEN <<StylistIssue("Paragraph " \o block.block_id,
                 "Contains sentences longer than 30 words.",
                 "Split sentences so each carries one subject-verb-object idea.",
                 long_sentences[1], "Medium")>>
        ELSE << >>)
       \o
       (IF passive_sentences # << >>
        THEN <<StylistIssue("Paragraph " \o block.block_id,
                 "Relies on passive voice, which hinders AI extraction.",
                 "Rewrite sentences so the subject performs the action directly.",
                 passive_sentences[1], "Medium")>>
        ELSE << >>)

RECURSIVE StylistIssuesFrom(_, _)
StylistIssuesFrom(ps, i) ==
    IF i > Len(ps) THEN << >>
    ELSE StylistParagraphIssues(ps[i]) \o StylistIssuesFrom(ps, i + 1)

\* NLPStylistAgent.structural_pass
StylistStructuralPass(context) ==
    LET feedback == StylistIssuesFrom(Paragraphs(context.document.blocks), 1)
    IN AgentPassResult(feedback, << >>, Max(0, 90 - 10 * Len(feedback)))

\* _rewrite_dense
RewriteDense(llmv, cfg, text, outcome) ==
    IF llmv = "none" THEN Rewritten("", text, 0)
    ELSE LET r == Chat(cfg, outcome) IN Rewritten(r.raised, Strip(r.content), r.posts)

NeedsDensity(b) == b.type = "paragraph" /\ NeedsDensityUpgrade(b.text)

\* the number of rewriter calls the NLP Stylist copy pass reaches
StylistCalls(context, llmv) ==
    IF llmv = "none" THEN 0
    ELSE Len(SelectSeq(context.document.blocks, NeedsDensity))

RECURSIVE StylistCopyLoop(_, _, _, _, _)
\* the loop of NLPStylistAgent.copy_pass over the paragraphs that need a
\* density upgrade, from the i-th on
StylistCopyLoop(todo, i, llmv, ctx, acc) ==
    IF i > Len(todo) THEN acc
    ELSE LET block == todo[i]
             r == RewriteDense(llmv, ctx.config, block.text,
                               IF llmv = "none" THEN Outcome("ok", "") ELSE ctx.oc[i])
         IN IF r.raised # ""
            THEN [acc EXCEPT !.raised = r.raised, !.posts = @ + r.posts]
            ELSE StylistCopyLoop(todo, i + 1, llmv, ctx,
                   [acc EXCEPT
                      !.optimized_blocks = Append(@,
                          ContentBlock(block.block_id, block.type, r.text,
                                       block.metadata)),
                      !.feedback = Append(@,
                          StylistIssue("Paragraph " \o block.block_id,
                            "Sentences lack entity-rich, active constructions.",
                            "Rewrite using SVO, explicit entities, and cause->effect connectors.",
                            r.text, "High")),
                      !.posts = @ + r.posts])

\* NLPStylistAgent.copy_pass; oc[k] is the outcome of its k-th call
StylistCopyPass(context, structural_result, llmv, oc) ==
    LET acc == StylistCopyLoop(SelectSeq(context.document.blocks, NeedsDensity), 1,
                               llmv, [config |-> context.config, oc |-> oc],
                               CopyResult("", << >>, << >>, 0, 0))
    IN [acc EXCEPT !.score_delta = Max(0, 80 - 10 * Len(acc.feedback))]


-----------------------------------------------------------------------------
(* modules/authority_builder.py *)
(* The second feedback.append( of structural_pass is never closed in the   *)
(* source file (line 52); the call is modelled as closed after its         *)
(* argument, which is the only reading under which the module loads.       *)

AuthorityIssue(element, issue, mandate, optimized, severity) ==
    OptimizationFeedback(element, issue, mandate, optimized, severity,
                         IF severity = "High" THEN 95 ELSE 70)

\* _has_citation: re.search(r"https?://", text)
HasCitation(text) == Contains(text, "http://") \/ Contains(text, "https://")

\* _has_fresh_year: re.search(r"20(2[0-9]|3[0-9])", text)
HasFreshYear(text) ==
    \E i \in 1..Len(text) :
        /\ MatchAt(text, "20", i)
        /\ i + 3 <= Len(text)
        /\ Ch(text, i + 2) \in {"2", "3"}
        /\ IsDigit(Ch(text, i + 3))

\* _needs_authority_upgrade
NeedsAuthorityUpgrade(text) == ~(HasCitation(text) /\ HasFreshYear(text))

\* the feedback of AuthorityBuilderAgent.structural_pass for one paragraph
AuthorityParagraphIssues(block) ==
    (IF ~HasCitation(block.text)
     THEN <<AuthorityIssue("Paragraph " \o block.block_id,
              "Missing inline attribution with a specific source.",
              "Reference a named source with a direct URL and publication year.",
              "Add citation", "High")>>
     ELSE << >>)
    \o
    (IF ~HasFreshYear(block.text)
     THEN <<AuthorityIssue("Paragraph " \o block.block_id,
              "No publication year attached to the cited evidence.",
              "Add a year (2022+) to signal freshness.",
              "Add year", "Medium")>>
     ELSE << >>)

RECURSIVE AuthorityIssuesFrom(_, _)
AuthorityIssuesFrom(ps, i) ==
    IF i > Len(ps) THEN << >>
    ELSE AuthorityParagraphIssues(ps[i]) \o AuthorityIssuesFrom(ps, i + 1)

\* AuthorityBuilderAgent.structural_pass
AuthorityStructuralPass(context) ==
    LET feedback == AuthorityIssuesFrom(Paragraphs(context.document.blocks), 1)
    IN AgentPassResult(feedback, << >>, Max(0, 85 - 10 * Len(feedback)))

\* _rewrite_authority
RewriteAuthority(llmv, cfg, text, outcome) ==
    IF llmv = "none" THEN Rewritten("", text, 0)
    ELSE LET r == Chat(cfg, outcome) IN Rewritten(r.raised, Strip(r.content), r.posts)

NeedsAuthority(b) == b.type = "paragraph" /\ NeedsAuthorityUpgrade(b.text)

\* the number of rewriter calls the Authority Builder copy pass reaches
AuthorityCalls(context, llmv) ==
    IF llmv = "none" THEN 0
    ELSE Len(SelectSeq(context.document.blocks, NeedsAuthority))

RECURSIVE AuthorityCopyLoop(_, _, _, _, _)
\* the loop of AuthorityBuilderAgent.copy_pass over the paragraphs that need
\* an authority upgrade, from the i-th on
AuthorityCopyLoop(todo, i, llmv, ctx, acc) ==
    IF i > Len(todo) THEN acc
    ELSE LET block == todo[i]
             r == RewriteAuthority(llmv, ctx.config, block.text,
                                   IF llmv = "none" THEN Outcome("ok", "") ELSE ctx.oc[i])
         IN IF r.raised # ""
            THEN [acc EXCEPT !.raised = r.raised, !.posts = @ + r.posts]
            ELSE AuthorityCopyLoop(todo, i + 1, llmv, ctx,
                   [acc EXCEPT
                      !.optimized_blocks = Append(@,
                          ContentBlock(block.block_id, block.type, r.text,
                                       block.metadata)),
                      !.feedback = Append(@,
                          AuthorityIssue("Paragraph " \o block.block_id,
                            "Paragraph lacks explicit E-E-A-T markers.",
                            "Add data-backed citation, date, and first-hand signal (e.g., 'In our audits...').",
                            r.text, "High")),
                      !.posts = @ + r.posts])

\* AuthorityBuilderAgent.copy_pass; oc[k] is the outcome of its k-th call
AuthorityCopyPass(context, structural_result, llmv, oc) ==
    LET acc == AuthorityCopyLoop(SelectSeq(context.document.blocks, NeedsAuthority),
                                 1, llmv, [config |-> context.config, oc |-> oc],
                                 CopyResult("", << >>, << >>, 0, 0))
    IN [acc EXCEPT !.score_delta = Max(0, 80 - 10 * Len(acc.feedback))]

-----------------------------------------------------------------------------
(* modules/metadata_optimizer.py *)

TITLE_LIMIT == 60
META_LIMIT_MIN == 140
META_LIMIT_MAX == 160

MetadataIssue(element, issue, mandate, optimized, severity) ==
    OptimizationFeedback(element, issue, mandate, optimized, severity,
                         IF severity \in {"Critical", "High"} THEN 80 ELSE 55)

\* _synthesize_title (the en dash of the source is written "-")
SynthesizeTitle(context) ==
    LET keyword == Get(context.document.metadata, "primary_keyword",
                       "AI content optimization")
    IN TitleCase(keyword) \o " - Answer, Evidence, Authority"

\* _synthesize_meta
SynthesizeMeta(context) ==
    LET keyword == Get(context.document.metadata, "primary_keyword",
                       "AI content optimization")
    IN "Learn how to optimize " \o keyword
       \o " with question-based structure, AEC chunks, NLP-friendly sentences, and cited authority."

HasFaqLabel(b) == Get(b.metadata, "h2_label", "") = "FAQ"

\* _has_faq_schema; a schema is a dict whose "faq" entry is a list
HasFaqSchema(schema, blocks) ==
    SelectSeq(blocks, HasFaqLabel) # << >> /\ Get(schema, "faq", << >>) # << >>

TitleBad(meta) ==
    Get(meta, "title", "") = "" \/ Len(meta["title"]) > TITLE_LIMIT

MetaBad(meta) ==
    LET meta_text == Get(meta, "meta_description", "") IN
    meta_text = "" \/ ~(META_LIMIT_MIN <= Len(meta_text) /\ Len(meta_text) <= META_LIMIT_MAX)

\* MetadataOptimizerAgent.structural_pass
MetadataStructuralPass(context) ==
    LET meta == context.document.metadata
        feedback ==
            (IF TitleBad(meta)
             THEN <<MetadataIssue("Title Tag", "Missing or exceeds 60 characters.",
                      "Provide an answer-first title under 60 characters that reflects the Stage 1 core question.",
                      Get(meta, "title", ""), "High")>>
             ELSE << >>)
            \o
            (IF MetaBad(meta)
             THEN <<MetadataIssue("Meta Description",
                      "Meta description missing or outside the 140-160 character window.",
                      "Summarize the core answer plus authority signal within the 140-160 character band.",
                      Get(meta, "meta_description", ""), "Medium")>>
             ELSE << >>)
            \o
            (IF ~HasFaqSchema(Get(meta, "schema", EmptyDict), context.document.blocks)
             THEN <<MetadataIssue("FAQ Schema",
                      "FAQPage schema missing or out of sync with the on-page FAQ blocks.",
                      "Generate FAQPage JSON-LD that mirrors the Stage 1 entries to keep SERP metadata aligned.",
                      "Add FAQ schema", "Medium")>>
             ELSE << >>)
    IN AgentPassResult(feedback, << >>, Max(0, 90 - 15 * Len(feedback)))

\* the metadata map after MetadataOptimizerAgent.copy_pass:
\* context.document.metadata.update(meta)
MetadataAfterCopy(context) ==
    LET meta0 == context.document.metadata
        meta1 == IF TitleBad(meta0)
                 THEN ("title" :> SynthesizeTitle(context)) @@ meta0 ELSE meta0
        meta2 == IF MetaBad(meta1)
                 THEN ("meta_description" :> SynthesizeMeta(context)) @@ meta1
                 ELSE meta1
    IN meta2 @@ meta0

\* MetadataOptimizerAgent.copy_pass (it has no rewriter)
MetadataCopyPass(context, structural_result) ==
    LET meta0 == context.document.metadata
        feedback ==
            (IF TitleBad(meta0)
             THEN <<MetadataIssue("Title Tag",
                      "Generated optimized title ready for SERP and AI overview display.",
                      "Adopt the synthesized answer-first title before publishing.",
                      SynthesizeTitle(context), "Medium")>>
             ELSE << >>)
            \o
            (IF MetaBad(meta0)
             THEN <<MetadataIssue("Meta Description",
                      "Optimized meta generated from Stage 1-4 outputs.",
                      "Use the synthesized meta to keep SERP and AI messaging fully aligned.",
                      SynthesizeMeta(context), "Medium")>>
             ELSE << >>)
    IN CopyResult("", feedback, << >>, IF feedback # << >> THEN 10 ELSE 0, 0)


-----------------------------------------------------------------------------
(* agent_base.py: OptimizationAgent.run, over the five concrete agents *)

Stages == <<"strategist", "chunk", "stylist", "authority", "metadata">>

StageName(stage) ==
    CASE stage = "strategist" -> "Stage 1 . Content Strategist"
      [] stage = "chunk" -> "Stage 2 . Chunk Optimizer"
      [] stage = "stylist" -> "Stage 3 . NLP Stylist"
      [] stage = "authority" -> "Stage 4 . Authority Builder"
      [] stage = "metadata" -> "Stage 5 . Metadata & Schema"

\* self.structural_pass(context), dispatched on the agent's class
StructuralPass(stage, context) ==
    CASE stage = "strategist" -> StrategistStructuralPass(context)
      [] stage = "chunk" -> ChunkStructuralPass(context)
      [] stage = "stylist" -> StylistStructuralPass(context)
      [] stage = "authority" -> AuthorityStructuralPass(context)
      [] stage = "metadata" -> MetadataStructuralPass(context)

\* self.copy_pass(context, structural_pass), dispatched on the agent's class
CopyPass(stage, context, structural_result, llmv, oc) ==
    CASE stage = "strategist" -> StrategistCopyPass(context, structural_result, llmv, oc)
      [] stage = "chunk" -> ChunkCopyPass(context, structural_result, llmv, oc)
      [] stage = "stylist" -> StylistCopyPass(context, structural_result, llmv, oc)
      [] stage = "authority" -> AuthorityCopyPass(context, structural_result, llmv, oc)
      [] stage = "metadata" -> MetadataCopyPass(context, structural_result)

\* the number of rewriter calls run() reaches when none of them fails
Calls(stage, payload, cfg, llmv) ==
    LET context == AgentContext(payload, cfg) IN
    CASE stage = "strategist" ->
           StrategistCalls(context, StrategistStructuralPass(context), llmv)
      [] stage = "chunk" -> ChunkCalls(context, llmv)
      [] stage = "stylist" -> StylistCalls(context, llmv)
      [] stage = "authority" -> AuthorityCalls(context, llmv)
      [] stage = "metadata" -> 0

AgentResult(stage_name, decision, score, feedback, optimized_blocks, summary) ==
    [stage_name |-> stage_name, decision |-> decision, score |-> score,
     feedback |-> feedback, optimized_blocks |-> optimized_blocks,
     summary |-> summary]

AgentScore(value, rationale) ==
    [value |-> value, label |-> "AI Readiness", rationale |-> rationale]

\* the result of a run() that raised
NoResult == AgentResult("", "", AgentScore(0, << >>), << >>, << >>, << >>)

\* run() whose copy pass updates a copy of the metadata map
Gate_metadataNotWritten(stage, payload, cfg, context, combined_feedback, optimized_blocks, score_value, posts, decision) ==
    [raised |-> "",
     result |-> AgentResult(StageName(stage), decision,
                            AgentScore(score_value, ScoreNote(payload, cfg)),
                            combined_feedback, optimized_blocks,
                            Summarize(combined_feedback, decision)),
     posts |-> posts,
     metadata |-> payload.metadata]

\* OptimizationAgent.run, lines 114-123: the AgentResult that is returned
Gate(stage, payload, cfg, context, combined_feedback, optimized_blocks, score_value, posts, decision) ==
    [raised |-> "",
     result |-> AgentResult(StageName(stage), decision,
                            AgentScore(score_value, ScoreNote(payload, cfg)),
                            combined_feedback, optimized_blocks,
                            Summarize(combined_feedback, decision)),
     posts |-> posts,
     metadata |-> IF stage = "metadata" THEN MetadataAfterCopy(context)
                  ELSE payload.metadata]

\* the two locals of run() that hold the pass results, kept with what run()
\* returns so that a caller of the model can read them
Locals(structural_pass, copy_pass) ==
    [structural_pass |-> structural_pass, copy_pass |-> copy_pass]

\* run() with the sum of the two deltas taken as the score, unclamped
Combine_noClamp(stage, payload, cfg, context, structural_pass, copy_pass) ==
    Locals(structural_pass, copy_pass) @@
    IF copy_pass.raised # ""
    THEN [raised |-> copy_pass.raised, result |-> NoResult,
          posts |-> copy_pass.posts, metadata |-> payload.metadata]
    ELSE LET combined_feedback == structural_pass.feedback \o copy_pass.feedback
             optimized_blocks == MergeBlocks(payload.blocks,
                                             structural_pass.optimized_blocks,
                                             copy_pass.optimized_blocks)
             score_value == structural_pass.score_delta + copy_pass.score_delta
         IN Gate(stage, payload, cfg, context, combined_feedback,
                 optimized_blocks, score_value, copy_pass.posts,
                 DecideGate(score_value, combined_feedback, cfg.mode))

\* run() with the copy pass's feedback ahead of the structural pass's
Combine_copyFirst(stage, payload, cfg, context, structural_pass, copy_pass) ==
    Locals(structural_pass, copy_pass) @@
    IF copy_pass.raised # ""
    THEN [raised |-> copy_pass.raised, result |-> NoResult,
          posts |-> copy_pass.posts, metadata |-> payload.metadata]
    ELSE LET combined_feedback == copy_pass.feedback \o structural_pass.feedback
             optimized_blocks == MergeBlocks(payload.blocks,
                                             structural_pass.optimized_blocks,
                                             copy_pass.optimized_blocks)
             score_value == Max(0, Min(100, structural_pass.score_delta
                                            + copy_pass.score_delta))
         IN Gate(stage, payload, cfg, context, combined_feedback,
                 optimized_blocks, score_value, copy_pass.posts,
                 DecideGate(score_value, combined_feedback, cfg.mode))

\* OptimizationAgent.run from line 103 on, given the two pass results
Combine(stage, payload, cfg, context, structural_pass, copy_pass) ==
    Locals(structural_pass, copy_pass) @@
    IF copy_pass.raised # ""
    THEN [raised |-> copy_pass.raised, result |-> NoResult,
          posts |-> copy_pass.posts, metadata |-> payload.metadata]
    ELSE LET combined_feedback == structural_pass.feedback \o copy_pass.feedback
             optimized_blocks == MergeBlocks(payload.blocks,
                                             structural_pass.optimized_blocks,
                                             copy_pass.optimized_blocks)
             score_value == Max(0, Min(100, structural_pass.score_delta
                                            + copy_pass.score_delta))
         IN Gate(stage, payload, cfg, context, combined_feedback,
                 optimized_blocks, score_value, copy_pass.posts,
                 DecideGate(score_value, combined_feedback, cfg.mode))

\* OptimizationAgent.run: [raised, result, posts, metadata, structural_pass,
\* copy_pass], where metadata is the payload's metadata map once run() is
\* over (Stage 5 updates it in place) and posts the number of requests
\* dispatched
Run(stage, payload, cfg, llmv, oc) ==
    LET context == AgentContext(payload, cfg) IN
    Combine(stage, payload, cfg, context, StructuralPass(stage, context),
            CopyPass(stage, context, StructuralPass(stage, context), llmv, oc))

-----------------------------------------------------------------------------
(* app.py *)

RECURSIVE ParseFrom(_, _, _)
\* the loop of parse_blocks from line i on, block_id blocks made so far
ParseFrom(lines, i, block_id) ==
    IF i > Len(lines) THEN << >>
    ELSE LET stripped == Strip(lines[i]) IN
         IF stripped = "" THEN ParseFrom(lines, i + 1, block_id)
         ELSE LET block ==
                    IF StartsWith(stripped, "### ")
                    THEN ContentBlock(IntToStr(block_id + 1), "H3",
                                      SubSeq(stripped, 5, Len(stripped)), EmptyDict)
                    ELSE IF StartsWith(stripped, "## ")
                    THEN ContentBlock(IntToStr(block_id + 1), "H2",
                                      SubSeq(stripped, 4, Len(stripped)), EmptyDict)
                    ELSE IF StartsWith(stripped, "# ")
                    THEN ContentBlock(IntToStr(block_id + 1), "H1",
                                      SubSeq(stripped, 3, Len(stripped)), EmptyDict)
                    ELSE ContentBlock(IntToStr(block_id + 1), "paragraph",
                                      stripped, EmptyDict)
              IN <<block>> \o ParseFrom(lines, i + 1, block_id + 1)

\* parse_blocks
ParseBlocks(raw_text) == ParseFrom(SplitLines(raw_text), 1, 0)

\* build_document
BuildDocument(raw_text, profile, metadata) ==
    DocumentPayload(raw_text, ParseBlocks(raw_text), profile, metadata)


\* the metadata dict main() builds for every run
MainMetadata(kw) ==
    [primary_keyword |-> kw, title |-> "", meta_description |-> "",
     schema |-> EmptyDict]

\* doc before build_document has run
NoDoc == DocumentPayload("", << >>, "", EmptyDict)

-----------------------------------------------------------------------------
(* The inputs the specifications draw from *)

\* the scenario document of the written specification
DocScenario == "# What Is X?\n\nShort intro.\n\n## Benefits\nBody."
\* one cited, dated, three-sentence paragraph under an H2 that is a question
DocCited ==
    "## Why Acme?\nAcme Corp grew sales in 2024. See https://acme.example/report. We'll show why Buyers care."
DocHeadingOnly == "# Only a heading"

\* completions the remote model may return (leading and trailing whitespace
\* included): one that satisfies the later stages' checks, one that does not
ReplyCited ==
    "  Acme Corp grew sales in 2024. See https://acme.example/report. We'll show why Buyers care.\n"
ReplyPlain == "Rewritten text"
LLMReplies == {ReplyCited, ReplyPlain}

Outcomes ==
    {Outcome("ok", r) : r \in LLMReplies} \cup {Outcome(f, "") : f \in TransportFailures}

\* uploaded files: an empty file, a file of blank lines, a document
FileContents == {"", " \n\n", DocScenario}
\* text-area contents: nothing, whitespace only, a document
PasteContents == {"", "  \n", DocCited}
Keywords == {"ai content optimization"}
\* the model picked in the sidebar (every option is in the allow-list)
SidebarModels == {"google/gemini-3-pro-preview"}

-----------------------------------------------------------------------------
(* Spec: one click of "Run Optimization" in app.py *)

Init ==
    /\ pc = "idle"
    /\ uploaded \in {<< >>} \cup {<<c>> : c \in FileContents}
    /\ pasted \in PasteContents
    /\ primary_keyword \in Keywords
    /\ env \in [api_key : BOOLEAN]
    /\ config \in {AppConfig(p, m, sm) :
                     p \in ContentProfiles, m \in OptimizationModes, sm \in SidebarModels}
    /\ llm = "none"
    /\ doc = NoDoc
    /\ results = << >>
    /\ exc = ""
    /\ http = 0
    /\ args = << >>
    /\ ret = << >>

\* main(), lines 161-181: pick the content, or show st.error and return
RunOptimization ==
    /\ pc = "idle"
    /\ IF uploaded # << >>
       THEN /\ pc' = "built"
            /\ doc' = BuildDocument(uploaded[1], config.profile,
                                    MainMetadata(primary_keyword))
       ELSE IF Strip(pasted) # ""
       THEN /\ pc' = "built"
            /\ doc' = BuildDocument(pasted, config.profile,
                                    MainMetadata(primary_keyword))
       ELSE /\ pc' = "rejected"
            /\ doc' = doc
    /\ UNCHANGED <<uploaded, pasted, env, config, llm, primary_keyword, results,
                   exc, http, args, ret>>

\* run_pipeline, lines 69-78: OpenRouterClient(config) and the agents
StartPipeline ==
    /\ pc = "built"
    /\ IF ResolveApiKey(env)
       THEN pc' = "stage1" /\ llm' = "client" /\ exc' = exc
       ELSE pc' = "crashed" /\ llm' = llm /\ exc' = "RuntimeError"
    /\ UNCHANGED <<uploaded, pasted, env, config, primary_keyword, doc, results,
                   http, args, ret>>

\* run_pipeline that appends the result but keeps feeding the same document
Continue_staleBlocks(r, next) ==
    /\ http' = http + r.posts
    /\ IF r.raised # ""
       THEN /\ pc' = "crashed"
            /\ exc' = r.raised
            /\ doc' = doc
            /\ results' = results
       ELSE /\ pc' = next
            /\ exc' = exc
            /\ doc' = [doc EXCEPT !.metadata = r.metadata]
            /\ results' = Append(results, r.result)

RECURSIVE JoinTexts(_, _)
\* "\n".join(block.text for block in blocks[i:])
JoinTexts(blocks, i) ==
    IF i > Len(blocks) THEN ""
    ELSE IF i = Len(blocks) THEN blocks[i].text
    ELSE blocks[i].text \o "\n" \o JoinTexts(blocks, i + 1)

\* run_pipeline that rebuilds raw_text from the texts of the new blocks
Continue_rawTextFromBlocks(r, next) ==
    /\ http' = http + r.posts
    /\ IF r.raised # ""
       THEN /\ pc' = "crashed"
            /\ exc' = r.raised
            /\ doc' = doc
            /\ results' = results
       ELSE /\ pc' = next
            /\ exc' = exc
            /\ doc' = DocumentPayload(JoinTexts(r.result.optimized_blocks, 1),
                                      r.result.optimized_blocks,
                                      doc.profile, r.metadata)
            /\ results' = Append(results, r.result)

\* run_pipeline that leaves its loop at the first stage that did not pass
Continue_stopOnGate(r, next) ==
    /\ http' = http + r.posts
    /\ IF r.raised # ""
       THEN /\ pc' = "crashed"
            /\ exc' = r.raised
            /\ doc' = doc
            /\ results' = results
       ELSE /\ pc' = IF r.result.decision = "passed" THEN next ELSE "done"
            /\ exc' = exc
            /\ doc' = DocumentPayload(doc.raw_text, r.result.optimized_blocks,
                                      doc.profile, r.metadata)
            /\ results' = Append(results, r.result)

\* run_pipeline, lines 81-88, after agent.run(current_doc) gave r
Continue(r, next) ==
    /\ http' = http + r.posts
    /\ IF r.raised # ""
       THEN /\ pc' = "crashed"
            /\ exc' = r.raised
            /\ doc' = doc
            /\ results' = results
       ELSE /\ pc' = next
            /\ exc' = exc
            /\ doc' = DocumentPayload(doc.raw_text, r.result.optimized_blocks,
                                      doc.profile, r.metadata)
            /\ results' = Append(results, r.result)

\* one iteration of run_pipeline's loop: agent.run(current_doc), the rebuilt
\* current_doc and results.append(result); an exception leaves the handler
RunStage(stage, next) ==
    /\ \E oc \in [1..Calls(stage, doc, config, llm) -> Outcomes] :
         Continue(Run(stage, doc, config, llm, oc), next)
    /\ UNCHANGED <<uploaded, pasted, env, config, llm, primary_keyword, args, ret>>

RunStrategist ==
    /\ pc = "stage1"
    /\ RunStage("strategist", "stage2")

RunChunk ==
    /\ pc = "stage2"
    /\ RunStage("chunk", "stage3")

RunStylist ==
    /\ pc = "stage3"
    /\ RunStage("stylist", "stage4")

RunAuthority ==
    /\ pc = "stage4"
    /\ RunStage("authority", "stage5")

RunMetadata ==
    /\ pc = "stage5"
    /\ RunStage("metadata", "done")


Next ==
    \/ RunOptimization
    \/ StartPipeline
    \/ RunStrategist
    \/ RunChunk
    \/ RunStylist
    \/ RunAuthority
    \/ RunMetadata

Spec == Init /\ [][Next]_vars

\* where control can go from each position of the handler: main() builds the
\* document or shows st.error, run_pipeline creates the client or raises,
\* and each iteration of the loop goes on to the next agent or raises
PcSuccessors ==
    [idle |-> {"built", "rejected"}, built |-> {"stage1", "crashed"},
     stage1 |-> {"stage2", "crashed"}, stage2 |-> {"stage3", "crashed"},
     stage3 |-> {"stage4", "crashed"}, stage4 |-> {"stage5", "crashed"},
     stage5 |-> {"done", "crashed"}]

\* the handler moves on from its position
Advance == pc \in DOMAIN PcSuccessors /\ pc' \in PcSuccessors[pc]

\* the handler is straight-line code around one loop over five agents, and
\* every rewriter call returns or raises (requests.post has timeout=60): the
\* handler does not stay for ever at a position it can leave
FairSpec == Spec /\ WF_pc(Advance)

-----------------------------------------------------------------------------
(* SpecGate: decide_gate as a pure function of its three arguments *)

MaxFeedback == 2

\* the feedback lists of a given length, one item per severity drawn
GateFeedback(n) ==
    {[i \in 1..n |-> OptimizationFeedback("Element " \o IntToStr(i), "issue",
                                          "mandate", "", sev[i],
                                          IF sev[i] = "Critical" THEN 9 ELSE 5)] :
       sev \in [1..n -> Severities]}

GateArgs ==
    [score_value : 0..100,
     feedback : UNION {GateFeedback(n) : n \in 0..MaxFeedback},
     mode : OptimizationModes]

InitGate ==
    /\ pc = "call"
    /\ args \in GateArgs
    /\ ret = ""
    /\ uploaded = << >>
    /\ pasted = ""
    /\ primary_keyword = ""
    /\ env = [api_key |-> FALSE]
    /\ config = AppConfig("BLOG", "STRICT", "")
    /\ llm = "none"
    /\ doc = NoDoc
    /\ results = << >>
    /\ exc = ""
    /\ http = 0

\* self.decide_gate(score_value, combined_feedback)
CallDecideGate ==
    /\ pc = "call"
    /\ pc' = "returned"
    /\ ret' = DecideGate(args.score_value, args.feedback, args.mode)
    /\ UNCHANGED <<uploaded, pasted, env, config, llm, primary_keyword, doc,
                   results, exc, http, args>>

NextGate == CallDecideGate

SpecGate == InitGate /\ [][NextGate]_vars

\* C2: the gate decision is determined by the score, the severities of the
\* feedback and the mode: a score of 80 or more gives Passed; below 80 a
\* Critical item gives Failed; below 80 without a Critical item Lite gives
\* Skipped and Strict gives Failed.
GateDecisionTable ==
    pc = "returned" =>
      LET critical == \E i \in 1..Len(args.feedback) :
                         args.feedback[i].severity = "Critical"
      IN /\ args.score_value >= 80 => ret = "passed"
         /\ args.score_value < 80 /\ critical => ret = "failed"
         /\ args.score_value < 80 /\ ~critical /\ args.mode = "LITE"
               => ret = "skipped"
         /\ args.score_value < 80 /\ ~critical /\ args.mode = "STRICT"
               => ret = "failed"

\* a Lite-mode call below 80 with feedback and no Critical item has returned
GateLiteSkipped ==
    /\ pc = "returned"
    /\ args.score_value = 79
    /\ args.mode = "LITE"
    /\ Len(args.feedback) = MaxFeedback
    /\ \A i \in 1..Len(args.feedback) : args.feedback[i].severity = "High"
    /\ ret = "skipped"

\* C3: whenever the score is 80 or more and the feedback holds a Critical
\* item, the decision is Failed.
CriticalOverride ==
    pc = "returned" /\ args.score_value >= 80
       /\ (\E i \in 1..Len(args.feedback) : args.feedback[i].severity = "Critical")
    => ret = "failed"

\* C12: for a fixed mode and feedback without a Critical item, a decision
\* of Passed at a score stays Passed at every higher score, and a higher
\* score changes the decision only from Failed or Skipped to Passed, across
\* the threshold of 80.
GateMonotone ==
    pc = "returned"
       /\ (\A i \in 1..Len(args.feedback) : args.feedback[i].severity # "Critical")
    => \A s2 \in args.score_value..100 :
          LET d2 == DecideGate(s2, args.feedback, args.mode) IN
          /\ ret = "passed" => d2 = "passed"
          /\ d2 # ret => d2 = "passed" /\ args.score_value < 80 /\ s2 >= 80

\* a Strict-mode call just below the threshold, with feedback and no
\* Critical item, has returned Failed
GateStrictFailedBelow ==
    /\ pc = "returned"
    /\ args.score_value = 79
    /\ args.mode = "STRICT"
    /\ Len(args.feedback) >= 1
    /\ \A i \in 1..Len(args.feedback) : args.feedback[i].severity = "Medium"
    /\ ret = "failed"

-----------------------------------------------------------------------------
(* SpecMerge: _merge_blocks as a pure function of its three arguments *)

MaxBlocks == 2
MaxProposals == 2

\* block texts as a document may hold them; the second carries whitespace
MergeTexts == <<"Alpha", " beta ", "Gamma", "Delta">>

\* the original block sequences of n blocks, ids "1".."n" as parse_blocks
\* numbers them
MergeOriginals(n) ==
    {[i \in 1..n |-> ContentBlock(IntToStr(i), type[i], MergeTexts[i], EmptyDict)] :
       type \in [1..n -> {"H2", "paragraph"}]}

\* ids a proposal may carry: those of a full-size document and a foreign one
ProposalIds == {IntToStr(i) : i \in 1..MaxBlocks} \cup {"x"}

\* the proposal lists of n blocks of one pass; tag tells the passes apart
MergeProposals(tag, n) ==
    {[j \in 1..n |-> ContentBlock(id[j], "paragraph", tag \o IntToStr(j), EmptyDict)] :
       id \in [1..n -> ProposalIds]}

MergeArgs ==
    [original : UNION {MergeOriginals(n) : n \in 0..MaxBlocks},
     structural : UNION {MergeProposals("structural ", n) : n \in 0..MaxProposals},
     copy : UNION {MergeProposals("copy ", n) : n \in 0..MaxProposals}]

InitMerge ==
    /\ pc = "call"
    /\ args \in MergeArgs
    /\ ret = << >>
    /\ uploaded = << >>
    /\ pasted = ""
    /\ primary_keyword = ""
    /\ env = [api_key |-> FALSE]
    /\ config = AppConfig("BLOG", "STRICT", "")
    /\ llm = "none"
    /\ doc = NoDoc
    /\ results = << >>
    /\ exc = ""
    /\ http = 0

\* self._merge_blocks(original, structural, copy)
CallMergeBlocks ==
    /\ pc = "call"
    /\ pc' = "returned"
    /\ ret' = MergeBlocks(args.original, args.structural, args.copy)
    /\ UNCHANGED <<uploaded, pasted, env, config, llm, primary_keyword, doc,
                   results, exc, http, args>>

NextMerge == CallMergeBlocks

SpecMerge == InitMerge /\ [][NextMerge]_vars

IdsOf(blocks) == {blocks[i].block_id : i \in 1..Len(blocks)}

\* C8: when both passes propose a replacement for the id of an original
\* block, the merged block at that position is a copy-pass proposal for
\* that id.
MergePrecedence ==
    pc = "returned" =>
      \A i \in 1..Len(args.original) :
         LET id == args.original[i].block_id IN
         id \in IdsOf(args.structural) /\ id \in IdsOf(args.copy)
         => /\ i <= Len(ret)
            /\ \E j \in 1..Len(args.copy) :
                  args.copy[j].block_id = id /\ ret[i] = args.copy[j]

\* both passes proposed a replacement for block "1" of a full-size document
\* and the merge has returned the copy-pass one
MergeBothProposed ==
    /\ pc = "returned"
    /\ Len(args.original) = MaxBlocks
    /\ Len(args.structural) >= 1 /\ args.structural[1].block_id = "1"
    /\ Len(args.copy) >= 1 /\ args.copy[1].block_id = "1"
    /\ ret[1].text = "copy 1"

\* C9: merging a block sequence with two empty proposal lists returns the
\* sequence itself: same ids, order, kinds and text.
MergeIdentity ==
    pc = "returned" /\ args.structural = << >> /\ args.copy = << >>
    => ret = args.original

\* a full-size document was merged with two empty proposal lists
MergeEmptyProposals ==
    /\ pc = "returned"
    /\ args.structural = << >> /\ args.copy = << >>
    /\ Len(args.original) = MaxBlocks
    /\ Len(ret) = MaxBlocks

\* C10: a proposal whose id is not in the original sequence is never
\* inserted, and an original block no proposal matches passes through
\* unchanged.
MergeUnknownIdNoOp ==
    pc = "returned" =>
      /\ Len(ret) = Len(args.original)
      /\ IdsOf(ret) \subseteq IdsOf(args.original)
      /\ \A i \in 1..Len(args.original) :
            args.original[i].block_id \notin
               IdsOf(args.structural) \cup IdsOf(args.copy)
            => ret[i] = args.original[i]

\* a merge returned where a proposal carried a foreign id and an original
\* block had no proposal
MergeUnknownIdSeen ==
    /\ pc = "returned"
    /\ Len(args.original) >= 1
    /\ "x" \in IdsOf(args.structural) \cup IdsOf(args.copy)
    /\ \E i \in 1..Len(args.original) :
          args.original[i].block_id \notin
             IdsOf(args.structural) \cup IdsOf(args.copy)

-----------------------------------------------------------------------------
(* SpecAgent: the stage agents run one after another on a document, each  *)
(* built with or without an llm client, as their constructors allow        *)

MaxRuns == 2

\* the texts the documents are built from; the first parses to no block
AgentTexts == {"", DocScenario, DocCited, DocHeadingOnly}
\* the configured model: one of the allow-list and one outside it
AgentModels == {"google/gemini-3-pro-preview", "unknown/model"}

InitAgent ==
    /\ pc = "agent"
    /\ primary_keyword \in Keywords
    /\ config \in {AppConfig(p, m, sm) :
                     p \in ContentProfiles, m \in OptimizationModes, sm \in AgentModels}
    /\ llm \in {"none", "client"}
    /\ doc \in {BuildDocument(t, config.profile, MainMetadata(primary_keyword)) :
                  t \in AgentTexts}
    /\ results = << >>
    /\ exc = ""
    /\ http = 0
    /\ args = << >>
    /\ ret = << >>
    /\ uploaded = << >>
    /\ pasted = ""
    /\ env = [api_key |-> TRUE]

\* what the caller of agent.run(payload) sees once it is over
Returned(r) ==
    /\ ret' = r
    /\ http' = http + r.posts
    /\ IF r.raised # ""
       THEN /\ pc' = "raised"
            /\ exc' = r.raised
            /\ doc' = doc
            /\ results' = results
       ELSE /\ pc' = "agent"
            /\ exc' = exc
            /\ doc' = DocumentPayload(doc.raw_text, r.result.optimized_blocks,
                                      doc.profile, r.metadata)
            /\ results' = Append(results, r.result)

\* the place of a stage's agent in the agents list of run_pipeline
StageIndex(stage) == CHOOSE i \in 1..Len(Stages) : Stages[i] = stage

\* agent.run(doc) for the agent of the given stage; an agent runs on a fresh
\* document, after itself or after an agent of an earlier stage
AgentRun(stage) ==
    /\ Len(results) < MaxRuns
    /\ args # << >> => StageIndex(args.stage) <= StageIndex(stage)
    /\ args' = [stage |-> stage, payload |-> doc]
    /\ \E oc \in [1..Calls(stage, doc, config, llm) -> Outcomes] :
         Returned(Run(stage, doc, config, llm, oc))
    /\ UNCHANGED <<uploaded, pasted, env, config, llm, primary_keyword>>

StrategistRun ==
    /\ pc = "agent"
    /\ AgentRun("strategist")

ChunkRun ==
    /\ pc = "agent"
    /\ AgentRun("chunk")

StylistRun ==
    /\ pc = "agent"
    /\ AgentRun("stylist")

AuthorityRun ==
    /\ pc = "agent"
    /\ AgentRun("authority")

MetadataRun ==
    /\ pc = "agent"
    /\ AgentRun("metadata")

NextAgent ==
    \/ StrategistRun
    \/ ChunkRun
    \/ StylistRun
    \/ AuthorityRun
    \/ MetadataRun

SpecAgent == InitAgent /\ [][NextAgent]_vars

\* C1: the block sequence run() returns has the length of the input block
\* sequence and the same block id at every position, for every agent and
\* document.
RunKeepsBlockIds ==
    ret # << >> /\ ret.raised = "" =>
      /\ Len(ret.result.optimized_blocks) = Len(args.payload.blocks)
      /\ \A i \in 1..Len(args.payload.blocks) :
            ret.result.optimized_blocks[i].block_id = args.payload.blocks[i].block_id

\* a run() returned blocks that differ from the several blocks it was given
RunReplacedBlock ==
    /\ ret # << >> /\ ret.raised = ""
    /\ Len(args.payload.blocks) >= 3
    /\ ret.result.optimized_blocks # args.payload.blocks

\* C6: the copy pass of an agent built without an llm client (Strategist,
\* Chunk Optimizer, NLP Stylist, Authority Builder) leaves every block's
\* text as the structural pass left it and records no feedback item: the
\* result carries the structural pass's feedback and nothing else.
NoClientNoRewriteFeedback ==
    ret # << >> /\ ret.raised = "" /\ llm = "none"
       /\ args.stage \in {"strategist", "chunk", "stylist", "authority"}
    => LET structural_pass ==
              StructuralPass(args.stage, AgentContext(args.payload, config))
           untouched == MergeBlocks(args.payload.blocks,
                                    structural_pass.optimized_blocks, << >>)
       IN /\ \A i \in 1..Len(args.payload.blocks) :
                ret.result.optimized_blocks[i].text = untouched[i].text
          /\ ret.result.feedback = structural_pass.feedback

-----------------------------------------------------------------------------
(* Claims on Spec, the "Run Optimization" handler *)

\* the exceptions a rewriter call ends in: the transport failures and the
\* ValueError of an unsupported model
RewriterFailures == TransportFailures \cup {"ValueError"}

\* C4: a rewriter call that fails during a copy pass is caught there; the
\* failure never leaves the stage and never aborts run_pipeline.
RewriteFailureNeverAborts ==
    ~(pc = "crashed" /\ exc \in RewriterFailures)

\* C5: without a configured credential run_pipeline still runs its five
\* stages, each giving a result; nothing crashes before or during the
\* pipeline.
NoCredentialStillRuns ==
    ~env.api_key => pc # "crashed"

\* the number of results run_pipeline holds at each place of its loop
ResultsAt ==
    [stage1 |-> 0, stage2 |-> 1, stage3 |-> 2, stage4 |-> 3, stage5 |-> 4,
     done |-> 5]

\* C13: run_pipeline runs the agents in the order Strategist, Chunk
\* Optimizer, NLP Stylist, Authority Builder, Metadata Optimizer: the
\* results list holds one entry per agent run so far, in that order, five
\* when the loop is over, and the blocks of the document given to the next
\* stage are the blocks the last stage returned.
PipelineInStageOrder ==
    /\ \A k \in 1..Len(results) : results[k].stage_name = StageName(Stages[k])
    /\ pc \in DOMAIN ResultsAt => Len(results) = ResultsAt[pc]
    /\ Len(results) >= 1 => doc.blocks = results[Len(results)].optimized_blocks

\* the loop of run_pipeline is over and the stages have changed the blocks
PipelineDoneBlocksChanged ==
    /\ pc = "done"
    /\ Len(results) = 5
    /\ doc.blocks # ParseBlocks(doc.raw_text)
    /\ results[1].optimized_blocks # results[5].optimized_blocks

\* C15: the document given to every stage and the final document carry the
\* raw_text and the profile of the initial document.
RawTextAndProfileKept ==
    pc \notin {"idle", "rejected"} =>
       /\ doc.raw_text = (IF uploaded # << >> THEN uploaded[1] ELSE pasted)
       /\ doc.profile = config.profile

\* the loop of run_pipeline is over for a pasted document whose second
\* block a stage rewrote
PipelineDonePastedRewritten ==
    /\ pc = "done"
    /\ uploaded = << >>
    /\ doc.raw_text = pasted
    /\ doc.blocks[2].text # ParseBlocks(pasted)[2].text

\* C7: build_document and run_pipeline are never reached with an input
\* that parses to zero blocks.
PipelineNeverGetsZeroBlocks ==
    pc \notin {"idle", "rejected"} => Len(doc.blocks) >= 1

-----------------------------------------------------------------------------
(* Claims on SpecAgent about what run() makes of the two pass results *)

\* C11: the stage score is the sum of the two passes' score deltas clamped
\* to 0..100, so it lies in 0..100 even when the sum exceeds 100.
ScoreIsClampedSum ==
    ret # << >> /\ ret.raised = "" =>
      LET sum == ret.structural_pass.score_delta + ret.copy_pass.score_delta
      IN /\ ret.result.score.value =
               (IF sum > 100 THEN 100 ELSE IF sum < 0 THEN 0 ELSE sum)
         /\ ret.result.score.value \in 0..100

\* a run() returned whose two deltas add up to more than 100
ScoreSumAbove100 ==
    /\ ret # << >> /\ ret.raised = ""
    /\ ret.structural_pass.score_delta + ret.copy_pass.score_delta > 100
    /\ ret.result.score.value = 100

\* C14: the feedback of a stage result is the structural pass's items in
\* their order followed by the copy pass's items in their order, none
\* dropped, duplicated or reordered.
FeedbackStructuralThenCopy ==
    ret # << >> /\ ret.raised = "" =>
      ret.result.feedback = ret.structural_pass.feedback \o ret.copy_pass.feedback

\* a run() returned where each pass recorded feedback, the structural pass
\* more than one item
FeedbackFromBothPasses ==
    /\ ret # << >> /\ ret.raised = ""
    /\ Len(ret.structural_pass.feedback) >= 2
    /\ Len(ret.copy_pass.feedback) >= 1
    /\ Len(ret.result.feedback) >= 3

\* C16: the model id is checked against the allow-list before anything is
\* dispatched: with a configured model outside the allow-list every
\* rewriter call fails with the unsupported-model error (ValueError) and no
\* request is ever posted.
UnsupportedModelNeverPosted ==
    ~ValidateModel(config, config.selected_model) =>
       /\ http = 0
       /\ ret # << >> =>
             /\ ret.posts = 0
             /\ ret.raised \in {"", "ValueError"}
             /\ Calls(args.stage, args.payload, config, llm) > 0
                   => ret.raised = "ValueError"

\* a run() whose copy pass reached the rewriter with a model outside the
\* allow-list has raised
UnsupportedModelRaised ==
    /\ config.selected_model = "unknown/model"
    /\ llm = "client"
    /\ pc = "raised"
    /\ exc = "ValueError"
    /\ ret.copy_pass.raised = "ValueError"

\* C17: in a Strategist run the copy pass turns to the rewriter for the
\* intro only when the structural pass proposed no block with the intro's
\* id: the intro is proposed by at most one of the two passes, the copy pass
\* proposes nothing else, and at most one request is made.
StrategistRewritesIntroOnce ==
    ret # << >> /\ args.stage = "strategist" =>
      LET intro == FirstParagraph(args.payload.blocks)
          structural_ids == IdsOf(ret.structural_pass.optimized_blocks)
          copy_ids == IdsOf(ret.copy_pass.optimized_blocks)
          called == \/ ret.posts > 0
                    \/ ret.copy_pass.raised # ""
                    \/ ret.copy_pass.optimized_blocks # << >>
      IN /\ ret.posts <= 1
         /\ Len(ret.copy_pass.optimized_blocks) <= 1
         /\ called => intro # << >> /\ intro[1].block_id \notin structural_ids
         /\ copy_ids \subseteq {intro[i].block_id : i \in 1..Len(intro)}
         /\ structural_ids \cap copy_ids = {}

\* a Strategist run whose structural pass left the intro alone and whose
\* copy pass had it rewritten by one request
StrategistCopyRewroteIntro ==
    /\ ret # << >> /\ args.stage = "strategist" /\ ret.raised = ""
    /\ ret.posts = 1
    /\ Len(ret.copy_pass.optimized_blocks) = 1
    /\ ret.copy_pass.optimized_blocks[1].block_id
          = FirstParagraph(args.payload.blocks)[1].block_id

\* a Strategist run with a client whose structural pass rewrote the intro,
\* so that the copy pass made no request
StrategistStructuralRewroteIntro ==
    /\ ret # << >> /\ args.stage = "strategist" /\ ret.raised = ""
    /\ llm = "client"
    /\ ret.posts = 0
    /\ ret.structural_pass.optimized_blocks # << >>
    /\ ret.copy_pass.optimized_blocks = << >>

-----------------------------------------------------------------------------
(* SpecChunk: one run of the Chunk Optimizer on documents of many          *)
(* paragraphs and on paragraphs of many lengths                            *)

MaxParagraphs == 6

RECURSIVE Repeat(_, _)
\* n copies of a word, one space between them
Repeat(word, n) ==
    IF n = 0 THEN ""
    ELSE IF n = 1 THEN word
    ELSE Repeat(word, n \div 2) \o " " \o Repeat(word, n - n \div 2)

\* paragraph i of a document: one sentence, or an answer, its evidence and
\* its context
OneSentence(i) == "Point " \o IntToStr(i) \o "."
ThreeSentences(i) ==
    "Claim " \o IntToStr(i) \o ". Data " \o IntToStr(i) \o ". Context "
       \o IntToStr(i) \o "."

RECURSIVE JoinLines(_, _)
\* the lines from the i-th on, one per line
JoinLines(lines, i) ==
    IF i > Len(lines) THEN ""
    ELSE lines[i] \o "\n" \o JoinLines(lines, i + 1)

\* an H2 and n paragraphs under it, each of one sentence or of three
ParagraphTexts(n) ==
    {"## Topic\n" \o
       JoinLines([i \in 1..n |-> IF three[i] THEN ThreeSentences(i)
                                 ELSE OneSentence(i)], 1) :
       three \in [1..n -> BOOLEAN]}

\* an H2 and six paragraphs of one long sentence each
LongSentence(i) == "Point " \o IntToStr(i) \o " " \o Repeat("w", 80) \o "."
LongParagraphsText ==
    "## Topic\n" \o JoinLines([i \in 1..6 |-> LongSentence(i)], 1)

\* word counts on both sides of every profile's two thresholds
ChunkWordCounts == {40, 60, 80, 260, 310}
LengthTexts == {Repeat("w", n) : n \in ChunkWordCounts}

\* what the remote service does in this specification: it answers, or the
\* request times out
ChunkOutcomes == {Outcome("ok", ReplyPlain), Outcome("Timeout", "")}

InitChunk ==
    /\ pc = "call"
    /\ primary_keyword \in Keywords
    /\ config \in {AppConfig(p, "STRICT", sm) :
                     p \in ContentProfiles, sm \in SidebarModels}
    /\ llm \in {"none", "client"}
    /\ doc \in {BuildDocument(t, config.profile, MainMetadata(primary_keyword)) :
                  t \in IF config.profile = "BLOG"
                        THEN LengthTexts \cup {LongParagraphsText} \cup
                             UNION {ParagraphTexts(n) : n \in 0..MaxParagraphs}
                        ELSE LengthTexts}
    /\ results = << >>
    /\ exc = ""
    /\ http = 0
    /\ args = << >>
    /\ ret = << >>
    /\ uploaded = << >>
    /\ pasted = ""
    /\ env = [api_key |-> TRUE]

\* what the caller of ChunkOptimizerAgent.run(doc) sees once it is over
ChunkReturned(r) ==
    /\ ret' = r
    /\ http' = http + r.posts
    /\ pc' = IF r.raised # "" THEN "raised" ELSE "returned"
    /\ exc' = r.raised
    /\ results' = IF r.raised # "" THEN results ELSE Append(results, r.result)

\* ChunkOptimizerAgent(config, llm).run(doc)
ChunkOptimizerRun ==
    /\ pc = "call"
    /\ args' = [stage |-> "chunk", payload |-> doc]
    /\ \E oc \in [1..Calls("chunk", doc, config, llm) -> ChunkOutcomes] :
         ChunkReturned(Run("chunk", doc, config, llm, oc))
    /\ UNCHANGED <<uploaded, pasted, env, config, llm, primary_keyword, doc>>

NextChunk == ChunkOptimizerRun

SpecChunk == InitChunk /\ [][NextChunk]_vars

\* the chunks of the document handed to run() that fail the AEC test, in
\* document order
FailingChunks == SelectSeq(CollectChunks(args.payload.blocks), FailsAec)

\* the text run() returned for the block of this id
ReturnedText(id) ==
    LET blocks == ret.result.optimized_blocks
    IN blocks[CHOOSE j \in 1..Len(blocks) : blocks[j].block_id = id].text

\* C18: the copy pass of the Chunk Optimizer calls the rewriter at most 5
\* times in a run, on the first 5 chunks that fail the AEC test; a failing
\* chunk after the fifth gets no proposed block and no copy feedback item,
\* and keeps its text.
ChunkCopyCappedAtFive ==
    (ret # << >> /\ args.stage = "chunk") =>
       LET first == SubSeq(FailingChunks, 1, Min(5, Len(FailingChunks)))
           cp == ret.copy_pass
       IN /\ ret.posts <= 5
          /\ ret.raised = "" =>
               /\ llm = "client" => ret.posts = Len(first)
               /\ Len(cp.optimized_blocks) = Len(first)
               /\ \A k \in 1..Len(first) :
                    cp.optimized_blocks[k].block_id = first[k].block_id
               /\ Len(cp.feedback) = Len(first)
               /\ \A k \in 6..Len(FailingChunks) :
                    ReturnedText(FailingChunks[k].block_id) = FailingChunks[k].text

\* a run over more than five failing chunks that made its five calls
ChunkSixthFailingSkipped ==
    /\ ret # << >>
    /\ ret.raised = ""
    /\ llm = "client"
    /\ Len(FailingChunks) > 5
    /\ ret.posts = 5
    /\ Len(ret.copy_pass.optimized_blocks) = 5

\* a feedback item that carries the chunk's text, whole or as the preview
\* of an over-length chunk
QuotesChunk(item, chunk) ==
    item.optimized_version \in {chunk.text, Take(chunk.text, 200) \o "..."}

\* C19 as stated: of 6 paragraphs that each fail the AEC test at most 5 are
\* rewritten, the 6th keeps its text, and the stage result holds no feedback
\* entry for the 6th.
ChunkSixthNoFeedback ==
    (ret # << >> /\ args.stage = "chunk" /\ Len(FailingChunks) = 6) =>
       /\ ret.posts <= 5
       /\ ret.raised = "" =>
            /\ ReturnedText(FailingChunks[6].block_id) = FailingChunks[6].text
            /\ \A k \in 1..Len(ret.result.feedback) :
                 ~QuotesChunk(ret.result.feedback[k], FailingChunks[6])

\* C19, amended: of 6 paragraphs that each fail the AEC test at most 5 are
\* rewritten; in the stage result the 6th keeps its text, the copy pass has
\* neither a block nor a feedback entry for it, and the only entry for it is
\* the Medium length item of the structural pass, there exactly when the
\* paragraph has fewer than 75 or more than 250 words.
ChunkSixthOnlyLengthFeedback ==
    (ret # << >> /\ args.stage = "chunk" /\ Len(FailingChunks) = 6) =>
       LET sixth == FailingChunks[6]
           word_count == WordCount(sixth.text)
           feedback == ret.result.feedback
           copy == ret.copy_pass
           entries == {k \in 1..Len(feedback) : QuotesChunk(feedback[k], sixth)}
       IN /\ ret.posts <= 5
          /\ ret.raised = "" =>
               /\ ReturnedText(sixth.block_id) = sixth.text
               /\ sixth.block_id \notin IdsOf(copy.optimized_blocks)
               /\ Len(copy.optimized_blocks) = 5
               /\ \A k \in 1..Len(copy.feedback) : ~QuotesChunk(copy.feedback[k], sixth)
               /\ Cardinality(entries) =
                    IF word_count < 75 \/ word_count > 250 THEN 1 ELSE 0
               /\ \A k \in entries :
                    /\ k <= Len(ret.structural_pass.feedback)
                    /\ feedback[k].severity = "Medium"

\* six short failing paragraphs, five rewritten by the client, and the
\* result carries the length item of the sixth
ChunkSixthHasLengthFeedback ==
    /\ ret # << >>
    /\ ret.raised = ""
    /\ llm = "client"
    /\ Len(FailingChunks) = 6
    /\ ret.posts = 5
    /\ ReturnedText(FailingChunks[6].block_id) = FailingChunks[6].text
    /\ \E k \in 1..Len(ret.result.feedback) :
         QuotesChunk(ret.result.feedback[k], FailingChunks[6])

\* six long failing paragraphs: the result has no entry at all for the sixth
ChunkSixthLongNoEntry ==
    /\ ret # << >>
    /\ ret.raised = ""
    /\ Len(FailingChunks) = 6
    /\ WordCount(FailingChunks[6].text) >= 75
    /\ \A k \in 1..Len(ret.result.feedback) :
         ~QuotesChunk(ret.result.feedback[k], FailingChunks[6])

\* the chunks of the document handed to run() that the active profile's
\* rules put out of range
OutOfProfileRange(chunk) ==
    \/ WordCount(chunk.text) < Rules(config).chunk_length_min
    \/ WordCount(chunk.text) > Rules(config).chunk_length_max

\* C20: the structural pass of the Chunk Optimizer flags exactly the chunks
\* whose word count is below the active profile's minimum chunk length or
\* above its maximum, with one Medium feedback item per flagged chunk, and
\* proposes no block replacement.
ChunkFlagsByProfileRange ==
    (ret # << >> /\ args.stage = "chunk") =>
       LET flagged == SelectSeq(CollectChunks(args.payload.blocks), OutOfProfileRange)
           structural == ret.structural_pass
       IN /\ structural.optimized_blocks = << >>
          /\ Len(structural.feedback) = Len(flagged)
          /\ \A k \in 1..Len(structural.feedback) :
               /\ structural.feedback[k].severity = "Medium"
               /\ k <= Len(flagged) => QuotesChunk(structural.feedback[k], flagged[k])

\* what the structural pass does instead: the range is 75..250 words under
\* every profile
ChunkFlagsByModuleRange ==
    (ret # << >> /\ args.stage = "chunk") =>
       LET chunks == CollectChunks(args.payload.blocks)
           OutOfRange(chunk) == WordCount(chunk.text) < 75 \/ WordCount(chunk.text) > 250
           flagged == SelectSeq(chunks, OutOfRange)
           structural == ret.structural_pass
       IN /\ structural.optimized_blocks = << >>
          /\ Len(structural.feedback) = Len(flagged)
          /\ \A k \in 1..Len(flagged) :
               /\ structural.feedback[k].severity = "Medium"
               /\ QuotesChunk(structural.feedback[k], flagged[k])

\* a Product Page paragraph of 50 to 74 words, flagged
ChunkProductPageFlagged ==
    /\ ret # << >>
    /\ config.profile = "PRODUCT_PAGE"
    /\ Len(args.payload.blocks) = 1
    /\ WordCount(args.payload.blocks[1].text) \in 50..74
    /\ Len(ret.structural_pass.feedback) = 1

\* a Thought Leadership paragraph of 251 to 300 words, flagged
ChunkThoughtLeadershipFlagged ==
    /\ ret # << >>
    /\ config.profile = "THOUGHT_LEADERSHIP"
    /\ Len(args.payload.blocks) = 1
    /\ WordCount(args.payload.blocks[1].text) \in 251..300
    /\ Len(ret.structural_pass.feedback) = 1

-----------------------------------------------------------------------------
(* The Metadata Optimizer and the Strategist on their own output *)

\* C21: given metadata with an empty title, an empty meta_description and
\* the primary keyword "ai content optimization", the Metadata Optimizer's
\* copy pass sets the title to "Ai Content Optimization - Answer, Evidence,
\* Authority" (the dash being the en dash of the source) and the
\* meta_description to a string of 140 to 160 characters.
MetadataSynthesizedInWindow ==
    (/\ ret # << >>
     /\ args.stage = "metadata"
     /\ ret.raised = ""
     /\ args.payload.metadata.title = ""
     /\ args.payload.metadata.meta_description = ""
     /\ args.payload.metadata.primary_keyword = "ai content optimization") =>
       /\ ret.metadata.title = "Ai Content Optimization - Answer, Evidence, Authority"
       /\ Len(ret.metadata.meta_description) >= 140
       /\ Len(ret.metadata.meta_description) <= 160

\* what the copy pass does for that keyword: the title of the claim, and a
\* meta description of 133 characters
MetadataSynthesizedShort ==
    /\ ret # << >>
    /\ args.stage = "metadata"
    /\ args.payload.metadata.title = ""
    /\ args.payload.metadata.primary_keyword = "ai content optimization"
    /\ ret.metadata.title = "Ai Content Optimization - Answer, Evidence, Authority"
    /\ Len(ret.metadata.meta_description) = 133

\* C22: the title and the meta description the Metadata Optimizer's copy
\* pass synthesizes are written into the document's own metadata map, so the
\* document run_pipeline returns carries them; stages 1 to 4 leave the
\* metadata map as main() built it.
MetadataWrittenBack ==
    /\ pc \in {"stage2", "stage3", "stage4", "stage5"} =>
         doc.metadata = MainMetadata(primary_keyword)
    /\ pc = "done" =>
         /\ doc.metadata.title = SynthesizeTitle(AgentContext(doc, config))
         /\ doc.metadata.meta_description = SynthesizeMeta(AgentContext(doc, config))
         /\ doc.metadata.title = results[5].feedback[4].optimized_version
         /\ doc.metadata.meta_description = results[5].feedback[5].optimized_version
         /\ doc.metadata.primary_keyword = primary_keyword
         /\ doc.metadata.schema = EmptyDict

\* a finished pipeline whose document has the synthesized title
PipelineDoneTitleSet ==
    /\ pc = "done"
    /\ Len(results) = 5
    /\ doc.metadata.title = "Ai Content Optimization - Answer, Evidence, Authority"
    /\ doc.metadata.meta_description # ""

\* the kinds and texts of the blocks of a document, in order
KindsAndTexts(blocks) == [i \in 1..Len(blocks) |-> <<blocks[i].type, blocks[i].text>>]

\* the document of the scenario, handed to the Strategist under Strict and Blog
StrategistGivenScenario ==
    /\ ret # << >>
    /\ args.stage = "strategist"
    /\ config.mode = "STRICT"
    /\ config.profile = "BLOG"
    /\ KindsAndTexts(args.payload.blocks) =
         << <<"H1", "What Is X?">>, <<"paragraph", "Short intro.">>,
            <<"H2", "Benefits">>, <<"paragraph", "Body.">> >>

\* C23: for the blocks [H1 "What Is X?", paragraph "Short intro.", H2
\* "Benefits", paragraph "Body."] under Strict and Blog, the Strategist's
\* structural pass emits no H1 feedback, exactly one Introduction item,
\* exactly one H2 item whose rewrite is "How does Benefits?" and exactly one
\* FAQ item, and the merged H2 block reads "How does Benefits?".
StrategistScenarioFeedback ==
    StrategistGivenScenario =>
       LET feedback == ret.structural_pass.feedback
           About(element) ==
               {k \in 1..Len(feedback) : feedback[k].element_identified = element}
           h2 == {k \in 1..Len(feedback) :
                    StartsWith(feedback[k].element_identified, "H2")}
       IN /\ About("H1") = {}
          /\ Cardinality(About("Introduction")) = 1
          /\ Cardinality(h2) = 1
          /\ \A k \in h2 : feedback[k].optimized_version = "How does Benefits?"
          /\ Cardinality(About("FAQ section")) = 1
          /\ Len(feedback) = 3
          /\ ret.raised = "" =>
               /\ ret.result.optimized_blocks[3].type = "H2"
               /\ ret.result.optimized_blocks[3].text = "How does Benefits?"

\* the Strategist returned a result for the scenario document
StrategistScenarioReturned ==
    /\ StrategistGivenScenario
    /\ ret.raised = ""
    /\ Len(ret.result.optimized_blocks) = 4
    /\ Len(ret.structural_pass.optimized_blocks) = 2

\* the kinds of the blocks of a document, in order
Kinds(blocks) == [i \in 1..Len(blocks) |-> blocks[i].type]

\* every block of the proposals has the id and the kind of a block of the
\* originals
SameIdAndKind(proposals, originals) ==
    \A k \in 1..Len(proposals) : \E j \in 1..Len(originals) :
       /\ originals[j].block_id = proposals[k].block_id
       /\ originals[j].type = proposals[k].type

\* C24: every block a pass of a stage proposes has the block id and the kind
\* of a block of the stage's input document, so the sequence of block kinds
\* is after every stage what it was in the initial document.
ProposalsKeepIdAndKind ==
    /\ Kinds(doc.blocks) = Kinds(ParseBlocks(doc.raw_text))
    /\ ret # << >> =>
         /\ SameIdAndKind(ret.structural_pass.optimized_blocks, args.payload.blocks)
         /\ SameIdAndKind(ret.copy_pass.optimized_blocks, args.payload.blocks)
         /\ ret.raised = "" =>
              Kinds(ret.result.optimized_blocks) = Kinds(args.payload.blocks)

\* a second stage has returned, both passes of it having proposed a block
\* of a document of more than one kind
SecondStageProposedBlocks ==
    /\ Len(results) = 2
    /\ ret.raised = ""
    /\ ret.copy_pass.optimized_blocks # << >>
    /\ \E i \in 1..Len(doc.blocks) : doc.blocks[i].type # "paragraph"
    /\ \E i \in 1..Len(doc.blocks) : doc.blocks[i].text # args.payload.blocks[i].text

\* the Strategist proposed a block for an H2 and one for a paragraph
StrategistProposedTwoKinds ==
    /\ ret # << >>
    /\ args.stage = "strategist"
    /\ \E k \in 1..Len(ret.structural_pass.optimized_blocks) :
         ret.structural_pass.optimized_blocks[k].type = "H2"
    /\ \E k \in 1..Len(ret.structural_pass.optimized_blocks) :
         ret.structural_pass.optimized_blocks[k].type = "paragraph"

\* C25: no agent emits a feedback item of severity Critical; so in Lite mode
\* every stage decision is Passed or Skipped, and in Strict mode every stage
\* decision is Passed or Failed.
NoCriticalFeedback ==
    /\ ret # << >> =>
         /\ \A k \in 1..Len(ret.structural_pass.feedback) :
              ret.structural_pass.feedback[k].severity \in {"High", "Medium", "Low"}
         /\ \A k \in 1..Len(ret.copy_pass.feedback) :
              ret.copy_pass.feedback[k].severity \in {"High", "Medium", "Low"}
    /\ \A i \in 1..Len(results) :
         /\ \A k \in 1..Len(results[i].feedback) :
              results[i].feedback[k].severity # "Critical"
         /\ config.mode = "LITE" => results[i].decision \in {"passed", "skipped"}
         /\ config.mode = "STRICT" => results[i].decision \in {"passed", "failed"}

\* a stage in Lite mode that scored under 80 with High feedback
LiteStageSkipped ==
    /\ config.mode = "LITE"
    /\ results # << >>
    /\ results[1].decision = "skipped"
    /\ results[1].score.value < 80
    /\ \E k \in 1..Len(results[1].feedback) : results[1].feedback[k].severity = "High"

\* C26: a stage's gate decision never affects control flow: whatever the
\* earlier stages decided, run_pipeline runs every remaining stage on the
\* blocks the stage before it returned, and a pipeline that has started
\* eventually returns five results unless a rewriter call fails.
PipelineIgnoresGate ==
    /\ [](pc \in DOMAIN ResultsAt =>
            /\ Len(results) = ResultsAt[pc]
            /\ Len(results) >= 1 => doc.blocks = results[Len(results)].optimized_blocks)
    /\ [][Advance]_vars
    /\ (pc = "stage1") ~>
          \/ pc = "done" /\ Len(results) = 5
          \/ pc = "crashed" /\ exc \in RewriterFailures

\* five results, though stage 1 failed its gate and a later stage passed
PipelineDoneAfterFailedStage ==
    /\ pc = "done"
    /\ Len(results) = 5
    /\ results[1].decision = "failed"
    /\ \E i \in 2..5 : results[i].decision = "passed"

\* five results, though stage 1 was skipped at its gate
PipelineDoneAfterSkippedStage ==
    /\ pc = "done"
    /\ Len(results) = 5
    /\ results[1].decision = "skipped"

\* the feedback items of a pass about the introduction, and about an H2
AboutIntro(feedback) ==
    {k \in 1..Len(feedback) : feedback[k].element_identified = "Introduction"}
AboutH2(feedback) ==
    {k \in 1..Len(feedback) : StartsWith(feedback[k].element_identified, "H2")}

\* the Strategist has run on the output of a Strategist run whose
\* structural pass proposed the templated intro
StrategistRanOnOwnOutput ==
    /\ Len(results) = 2
    /\ args.stage = "strategist"
    /\ results[1].stage_name = StageName("strategist")
    /\ \E k \in AboutIntro(results[1].feedback) : results[1].feedback[k].severity = "High"

\* C27: the Strategist's structural pass reaches a fixed point after one
\* application: the templated intro it proposes has 30 to 60 words and a
\* forward-reference phrase, so the structural pass run again on the merged
\* output emits no Introduction item and no H2 question-format item.
StrategistFixedPoint ==
    StrategistRanOnOwnOutput =>
       /\ WordCount(FirstParagraph(args.payload.blocks)[1].text) >= 30
       /\ WordCount(FirstParagraph(args.payload.blocks)[1].text) <= 60
       /\ AboutIntro(ret.structural_pass.feedback) = {}
       /\ AboutH2(ret.structural_pass.feedback) = {}

\* what the second application does: no H2 item, and the Introduction item
\* again, for a templated intro of fewer than 30 words
StrategistFlagsOwnIntro ==
    /\ StrategistRanOnOwnOutput
    /\ WordCount(FirstParagraph(args.payload.blocks)[1].text) < 30
    /\ AboutIntro(ret.structural_pass.feedback) # {}
    /\ AboutH2(ret.structural_pass.feedback) = {}

\* the Metadata Optimizer has run on the document of a Metadata Optimizer run
MetadataRanOnOwnOutput ==
    /\ Len(results) = 2
    /\ args.stage = "metadata"
    /\ results[1].stage_name = StageName("metadata")

\* the feedback items of a pass about the title or the meta description
AboutTitleOrMeta(feedback) ==
    {k \in 1..Len(feedback) :
       feedback[k].element_identified \in {"Title Tag", "Meta Description"}}

\* C28: the Metadata Optimizer's copy pass is idempotent: after one copy
\* pass the title is non-empty and of at most 60 characters and the meta
\* description has 140 to 160 characters, so a second structural pass reports
\* no Title Tag or Meta Description issue, and a second copy pass changes
\* nothing and emits no feedback.
MetadataIdempotent ==
    MetadataRanOnOwnOutput =>
       /\ args.payload.metadata.title # ""
       /\ Len(args.payload.metadata.title) <= 60
       /\ Len(args.payload.metadata.meta_description) >= 140
       /\ Len(args.payload.metadata.meta_description) <= 160
       /\ AboutTitleOrMeta(ret.structural_pass.feedback) = {}
       /\ ret.copy_pass.feedback = << >>
       /\ ret.metadata = args.payload.metadata

\* what the second run does: the title is kept and passes, the meta
\* description is reported and synthesized again, to the same text
MetadataResynthesizesMeta ==
    /\ MetadataRanOnOwnOutput
    /\ Len(args.payload.metadata.title) <= 60
    /\ Len(args.payload.metadata.meta_description) < 140
    /\ Len(ret.copy_pass.feedback) = 1
    /\ Cardinality(AboutTitleOrMeta(ret.structural_pass.feedback)) = 1
    /\ ret.metadata = args.payload.metadata


====
